---- MODULE Spec2Model ----
(***************************************************************************)
(* Model of the document ingestion and retrieval pipeline of the business  *)
(* chatbot system: FileProcessor (lib/file-processor.mjs), AISystem        *)
(* (lib/ai-system.mjs), the persistence module (lib/database.mjs) and the  *)
(* create-and-upload handler of server.mjs.                                *)
(*                                                                         *)
(* Texts are sequences of one-character strings.  JavaScript indices are   *)
(* 0-based: the character at JS index i of s is s[i + 1].                  *)
(***************************************************************************)
EXTENDS Integers, Sequences, FiniteSets, TLC

VARIABLES
  \* ---- FileProcessor.chunkText
  text,       \* the text argument
  given,      \* FALSE when text is missing (undefined / null)
  maxLength,  \* the maxLength argument
  overlap,    \* the overlap argument
  start,      \* the loop variable start
  chunks,     \* the chunks array
  spans,      \* for each loop iteration, what it sliced and pushed
  cpc,        \* position in chunkText: "idle", "call", "loop", "done"
  \* ---- FileProcessor.processFile
  content,      \* what the file holds (its text, or the text of its one cell)
  fileType,     \* the fileType argument
  originalName, \* the originalName argument
  cleaned,      \* the result of cleanText
  info,         \* the result of extractContactInfo on the cleaned text
  result,       \* the string processFile returns
  carded,       \* TRUE once appendContactCard has run
  fpc,          \* position in processFile: "idle", "call", "done", "threw"
  \* ---- AISystem.retrieveRelevantChunks
  backend,        \* which lib/database.mjs is deployed: "dynamodb", "sqlite"
  stored,         \* the chunks table
  businessId,     \* the businessId argument
  query,          \* the query argument
  topK,           \* the topK argument
  queryEmbedding, \* the embedding of the query, <<>> before it is known
  fetched,        \* the local chunks: what getBusinessChunks(...) || [] gave
  returned,       \* the ids of the chunks returned
  caught,         \* what the catch block caught: "none", "embedding", "TypeError"
  rpc,            \* position: "idle", "call", "embedded", "fetched", "done"
  \* ---- POST /admin/business/create-and-upload
  files,         \* req.files: the original names of the uploaded files
  env,           \* the request body and the database: "ok", or what is wrong
  fileIdx,       \* the place in req.files of the file being processed
  uploadResults, \* the uploadResults array
  totalChunks,   \* the local totalChunks
  chunkCount,    \* the local chunkCount of the file being processed
  chunksInFile,  \* chunks.length of the file being processed
  limitedCount,  \* limitedChunks.length of the file being processed
  bi,            \* the loop variable i of the batch loop
  failed,        \* the places of the files whose try block threw
  tempFiles,     \* the places of the files whose temp file exists
  response,      \* the response sent, status 0 before
  upc,           \* position: "idle", "multer", "handler", "files", "batch",
                 \* "await" (at Promise.allSettled), "done"
  outcomes,      \* what happens to each chunk of the file being processed
  started,       \* the chunkIndex of the chunks whose embedding call was made
  inflight,      \* the chunkIndex of the batch promises not yet settled
  batchResults,  \* the values of the settled promises of the batch
  savedChunks,   \* the chunk_index of the chunks stored for the document
  outstanding,   \* the embedding calls the provider has not answered yet
  \* ---- AISystem.generateResponse
  business,       \* the business argument
  userQuery,      \* the query argument
  relevantChunks, \* the relevantChunks argument
  sessionHistory, \* sessionHistory.length
  chatModel,      \* what openai.chat.completions.create does
  context,        \* the local context
  messages,       \* the local messages
  reply,          \* the string returned
  thrown,         \* the error that left the function, "none" if none did
  gpc,            \* position: "idle", "call", "built", "done"
  \* ---- FileProcessor.extractKeywords
  kwText,   \* the text argument
  limit,    \* the limit argument
  kwWords,  \* the local words
  kwTop,    \* the words of the entries kept by slice(0, limit)
  keywords, \* the string returned
  kpc,      \* position: "idle", "call", "counted", "done"
  \* ---- FileProcessor.categorizeContent
  catText,   \* the text argument
  catName,   \* the filename argument
  catScores, \* the local scores, in tenths
  category,  \* the category returned
  apc,       \* position: "idle", "call", "scored", "bonus", "done"
  \* ---- the business-creation routes, several requests at a time
  dbModule,     \* the database module: "dynamodb" or "sqlite"
  businessRows, \* the rows of the businesses table: id and slug
  requests,     \* the requests in progress, by requester
  \* ---- the chat page (public/chat.js)
  isTyping,     \* let isTyping
  messageInput, \* messageInput.value
  sendDisabled, \* sendButton.disabled
  token,        \* let token: "" until the session is initialized
  shown,        \* the suggestions in the page
  fetching,     \* fetches of /api/chat/message that are pending
  reading,      \* responses whose body is being read
  sends         \* the messages sent so far

chunkVars == <<text, given, maxLength, overlap, start, chunks, spans, cpc>>

fileVars ==
  <<content, fileType, originalName, cleaned, info, result, carded, fpc>>

retrieveVars ==
  <<backend, stored, businessId, query, topK, queryEmbedding, fetched,
    returned, caught, rpc>>

uploadVars ==
  <<files, env, fileIdx, uploadResults, totalChunks, chunkCount, chunksInFile,
    limitedCount, bi, failed, tempFiles, response, upc, outcomes, started,
    inflight, batchResults, savedChunks, outstanding>>

respondVars ==
  <<business, userQuery, relevantChunks, sessionHistory, chatModel, context,
    messages, reply, thrown, gpc>>

keywordVars == <<kwText, limit, kwWords, kwTop, keywords, kpc>>

categorizeVars == <<catText, catName, catScores, category, apc>>

createVars == <<dbModule, businessRows, requests>>

clientVars ==
  <<isTyping, messageInput, sendDisabled, token, shown, fetching, reading,
    sends>>

vars ==
  <<chunkVars, fileVars, retrieveVars, uploadVars, respondVars, keywordVars,
    categorizeVars,
    createVars,
    clientVars>>

\* what the steps of one operation leave alone: the state of the others
notCreate ==
  <<chunkVars, fileVars, retrieveVars, uploadVars, respondVars, keywordVars,
    categorizeVars,
    clientVars>>
notClient ==
  <<chunkVars, fileVars, retrieveVars, uploadVars, respondVars, keywordVars,
    categorizeVars, createVars>>
notChunk ==
  <<fileVars, retrieveVars, uploadVars, respondVars, keywordVars,
    categorizeVars,
    createVars,
    clientVars>>
notFile ==
  <<chunkVars, retrieveVars, uploadVars, respondVars, keywordVars,
    categorizeVars,
    createVars,
    clientVars>>
notRetrieve ==
  <<chunkVars, fileVars, uploadVars, respondVars, keywordVars,
    categorizeVars,
    createVars,
    clientVars>>
notUpload ==
  <<chunkVars, fileVars, retrieveVars, respondVars, keywordVars,
    categorizeVars,
    createVars,
    clientVars>>
notRespond ==
  <<chunkVars, fileVars, retrieveVars, uploadVars, keywordVars,
    categorizeVars,
    createVars,
    clientVars>>
notCategorize ==
  <<chunkVars, fileVars, retrieveVars, uploadVars, respondVars, keywordVars,
    createVars,
    clientVars>>
notKeywords ==
  <<chunkVars, fileVars, retrieveVars, uploadVars, respondVars,
    categorizeVars,
    createVars,
    clientVars>>

\* ------------------------------------------------------------------ bounds
MaxTextLen == 5
MaxMaxLength == 3
MaxOverlap == 2
MaxPieces == 2
MaxStored == 2
MaxTopK == 2
MaxFiles == 2
MaxChunksGiven == 2
MaxWords == 3
MaxLimit == 3
MaxCatPieces == 2
MaxRequests == 2
MaxSends == 3

\* ------------------------------------------------------ string primitives
Min(a, b) == IF a < b THEN a ELSE b
Max(a, b) == IF a > b THEN a ELSE b

\* F(v) with v evaluated once: a const of the source
Bind(v, F(_)) == CHOOSE r \in {F(x) : x \in {v}} : TRUE

\* the least / greatest element of a non-empty set of integers
SetMin(S) == CHOOSE i \in S : \A j \in S : i <= j
SetMax(S) == CHOOSE i \in S : \A j \in S : i >= j

\* String.prototype.trim's white space, as far as the modelled alphabet goes
IsWs(c) == c \in {" ", "\n", "\t", "\r"}

\* s.slice(a, b) for 0 <= a, 0 <= b
Slice(s, a, b) ==
  IF a >= Min(b, Len(s)) THEN <<>> ELSE SubSeq(s, a + 1, Min(b, Len(s)))

\* TRUE iff pat occurs in s at JS index i
OccursAt(s, pat, i) ==
  /\ i >= 0
  /\ i + Len(pat) <= Len(s)
  /\ \A k \in 1..Len(pat) : s[i + k] = pat[k]

\* s.indexOf(pat, from)
IndexOf(s, pat, from) ==
  Bind({i \in Max(from, 0)..Len(s) : OccursAt(s, pat, i)},
       LAMBDA hits : IF hits = {} THEN -1 ELSE SetMin(hits))

\* s.lastIndexOf(pat, from): the last occurrence starting at an index <= from
LastIndexOf(s, pat, from) ==
  Bind({i \in 0..Min(from, Len(s)) : OccursAt(s, pat, i)},
       LAMBDA hits : IF hits = {} THEN -1 ELSE SetMax(hits))

Includes(s, pat) == IndexOf(s, pat, 0) # -1

\* the end of the longest run of characters satisfying Test from index p
RunEnd(s, p, Test(_)) ==
  IF p >= Len(s) THEN p
  ELSE CHOOSE j \in p..Len(s) :
         /\ j = Len(s) \/ ~Test(s[j + 1])
         /\ \A k \in (p + 1)..j : Test(s[k])

\* index of the first / one past the last non-white-space character
TrimFrom(s) == RunEnd(s, 0, IsWs)

TrimTo(s) ==
  CHOOSE i \in 0..Len(s) :
    /\ i = 0 \/ ~IsWs(s[i])
    /\ \A j \in (i + 1)..Len(s) : IsWs(s[j])

\* s.trim()
Trim(s) == Slice(s, TrimFrom(s), TrimTo(s))

\* the characters of s at the indices that satisfy Keep, in order
Keeping(s, Keep(_)) ==
  Bind(SelectSeq([i \in 1..Len(s) |-> i], Keep),
       LAMBDA idx : [k \in 1..Len(idx) |-> s[idx[k]]])

\* ------------------------------------------------- FileProcessor.chunkText
\* the end of the window that starts at st (file-processor.mjs 161-171)
WindowEnd(t, st, maxLen) ==
  LET end0 == Min(st + maxLen, Len(t))
      lastParaBreak == LastIndexOf(t, <<"\n", "\n">>, end0)
      lastSentence == LastIndexOf(t, <<".">>, end0)
      lastNewline == LastIndexOf(t, <<"\n">>, end0)
      bp0 == Max(lastParaBreak, Max(lastSentence, lastNewline))
      \* breakPoint <= start + maxLength * 0.5, in halves
      breakPoint == IF 2 * bp0 <= 2 * st + maxLen THEN -1 ELSE bp0
  IN IF end0 < Len(t)
       THEN IF breakPoint > st THEN breakPoint + 1 ELSE end0
       ELSE end0

\* mutants of NextStart: the clamp forgotten; the overlap added, not subtracted
NextStartUnclamped(st, end, ov) == end - ov
NextStartSkipping(st, end, ov) == Max(st + 1, end + ov)

\* Math.max(start + 1, end - overlap) (file-processor.mjs 176)
NextStart(st, end, ov) == Max(st + 1, end - ov)

\* mutant of EarlyResult: the single chunk trimmed like the chunks of the loop
EarlyResultTrimmed(t, g) == IF g /\ Len(t) > 0 THEN <<Trim(t)>> ELSE <<>>

\* return text ? [text] : [] (file-processor.mjs 154)
EarlyResult(t, g) == IF g /\ Len(t) > 0 THEN <<t>> ELSE <<>>

\* if (!text || text.length <= maxLength) return text ? [text] : []
ChunkEarlyReturn ==
  /\ cpc = "call"
  /\ (~given \/ Len(text) = 0 \/ Len(text) <= maxLength)
  /\ chunks' = EarlyResult(text, given)
  /\ cpc' = "done"
  /\ UNCHANGED <<text, given, maxLength, overlap, start, spans, notChunk>>

\* const chunks = []; let start = 0;
ChunkEnterLoop ==
  /\ cpc = "call"
  /\ ~(~given \/ Len(text) = 0 \/ Len(text) <= maxLength)
  /\ chunks' = <<>>
  /\ start' = 0
  /\ cpc' = "loop"
  /\ UNCHANGED <<text, given, maxLength, overlap, spans, notChunk>>

\* one iteration of while (start < text.length)
ChunkIter ==
  /\ cpc = "loop"
  /\ start < Len(text)
  /\ LET end == WindowEnd(text, start, maxLength)
         raw == Slice(text, start, end)
         chunk == Trim(raw)
         nextStart == NextStart(start, end, overlap)
     IN /\ chunks' = IF chunk # <<>> THEN Append(chunks, chunk) ELSE chunks
        /\ spans' = Append(spans,
                      [from |-> start, to |-> end,
                       cfrom |-> start + TrimFrom(raw),
                       cto |-> IF chunk = <<>> THEN start + TrimFrom(raw)
                               ELSE start + TrimTo(raw),
                       next |-> nextStart])
        /\ IF nextStart <= start
             THEN cpc' = "done" /\ start' = start
             ELSE cpc' = "loop" /\ start' = nextStart
  /\ UNCHANGED <<text, given, maxLength, overlap, notChunk>>

\* the loop condition fails: return chunks
ChunkReturn ==
  /\ cpc = "loop"
  /\ start >= Len(text)
  /\ cpc' = "done"
  /\ UNCHANGED <<text, given, maxLength, overlap, start, chunks, spans, notChunk>>

Alphabet == {"a", " ", ".", "\n"}

Texts == UNION {[1..n -> Alphabet] : n \in 0..MaxTextLen}

\* half a wide window of plain characters
Filler == <<"a", "a", "a", "a">>

\* a maxLength whose second half has room for a paragraph break and a
\* sentence end after it
WideWindow == 2 * Len(Filler)

\* texts longer than a wide window: every text of Texts after the filler,
\* so that it lies in the second half of the first window, and a tail
LongTexts == {Filler \o t \o <<"a", "a">> : t \in Texts}

InitChunk ==
  /\ given \in BOOLEAN
  /\ \/ /\ text \in (IF given THEN Texts ELSE {<<>>})
        /\ maxLength \in 1..MaxMaxLength
     \/ /\ given
        /\ text \in LongTexts
        /\ maxLength = WideWindow
  /\ overlap \in 0..MaxOverlap
  /\ start = 0
  /\ chunks = <<>>
  /\ spans = <<>>
  /\ cpc = "call"

NextChunk == ChunkEarlyReturn \/ ChunkEnterLoop \/ ChunkIter \/ ChunkReturn

\* ------------------------------------------------- characters and strings
UpperLetters ==
  <<"A", "B", "C", "D", "E", "F", "G", "H", "I", "J", "K", "L", "M",
    "N", "O", "P", "Q", "R", "S", "T", "U", "V", "W", "X", "Y", "Z">>

LowerLetters ==
  <<"a", "b", "c", "d", "e", "f", "g", "h", "i", "j", "k", "l", "m",
    "n", "o", "p", "q", "r", "s", "t", "u", "v", "w", "x", "y", "z">>

IsUpper(c) == \E i \in DOMAIN UpperLetters : UpperLetters[i] = c

IsDigit(c) == c \in {"0", "1", "2", "3", "4", "5", "6", "7", "8", "9"}

\* one character of String.prototype.toLowerCase
ToLowerChar(c) ==
  IF IsUpper(c)
    THEN LowerLetters[CHOOSE i \in DOMAIN UpperLetters : UpperLetters[i] = c]
    ELSE c

\* s.toLowerCase()
ToLower(s) == [i \in 1..Len(s) |-> ToLowerChar(s[i])]

\* ss.slice(k - 1).join(sep)
RECURSIVE JoinFrom(_, _, _)
JoinFrom(ss, k, sep) ==
  IF k > Len(ss) THEN <<>>
  ELSE IF k = Len(ss) THEN ss[k]
  ELSE ss[k] \o sep \o JoinFrom(ss, k + 1, sep)

\* ss.join(sep)
Join(ss, sep) == JoinFrom(ss, 1, sep)

\* the index of the "\n" that ends the line holding index j, or s.length
LineEnd(s, j) ==
  Bind(IndexOf(s, <<"\n">>, j), LAMBDA e : IF e = -1 THEN Len(s) ELSE e)

\* s.slice(j).split('\n')
RECURSIVE SplitFrom(_, _)
SplitFrom(s, j) ==
  Bind(LineEnd(s, j),
       LAMBDA e : IF e = Len(s) THEN <<Slice(s, j, e)>>
                  ELSE <<Slice(s, j, e)>> \o SplitFrom(s, e + 1))

\* s.split('\n')
SplitLines(s) == SplitFrom(s, 0)

\* the number of characters of s that satisfy Test
CountChars(s, Test(_)) == Cardinality({i \in 1..Len(s) : Test(s[i])})

\* the number of (possibly overlapping) occurrences of pat in s
CountOccurrences(s, pat) == Cardinality({i \in 0..Len(s) : OccursAt(s, pat, i)})

\* the end of the longest run of white space that starts at index p
SkipWs(s, p) == RunEnd(s, p, IsWs)

\* ------------------------------------- FileProcessor.extractContactInfo
\* iIndexOf(hay, needle, from) (file-processor.mjs 280-281); low is
\* hay.toLowerCase()
iIndexOf(low, needle, from) ==
  Bind(ToLower(needle), LAMBDA n : IndexOf(low, n, from))

\* findHeaderIndex(hay, options).idx: the index of the first option, in the
\* order of the options, that occurs anywhere in hay (283-289); k is the
\* position of the for loop in options
RECURSIVE findHeaderIndex(_, _, _)
findHeaderIndex(low, options, k) ==
  IF k > Len(options) THEN -1
  ELSE Bind(iIndexOf(low, options[k], 0),
            LAMBDA idx : IF idx # -1 THEN idx
                         ELSE findHeaderIndex(low, options, k + 1))

\* the characters [A-Z0-9 /&+\-'":()] of the header pattern (the typographic
\* quotes and dashes of the pattern are outside the modelled alphabet)
IsHeaderChar(c) ==
  IsUpper(c) \/ IsDigit(c) \/ c \in {" ", "/", "&", "+", "-", "'", "\"", ":", "(", ")"}

\* isAllCapsHeader(line) (291-292)
isAllCapsHeader(line) ==
  Bind(Trim(line),
       LAMBDA t : /\ Len(t) >= 2
                  /\ IsUpper(t[1]) \/ IsDigit(t[1])
                  /\ \A i \in 2..Len(t) : IsHeaderChar(t[i]))

\* t === '' || isAllCapsHeader(t) for t = line.trim() (300-301, 407-408)
EndsSection(line) ==
  Bind(Trim(line), LAMBDA t : t = <<>> \/ isAllCapsHeader(t))

\* nextHeaderOrBlank(hay, startPos): the start of the first line after the
\* line of startPos that ends the section, or hay.length (294-306)
nextHeaderOrBlank(hay, startPos) ==
  Bind({j \in (startPos + 1)..Len(hay) :
          hay[j] = "\n" /\ EndsSection(Slice(hay, j, LineEnd(hay, j)))},
       LAMBDA stops : IF stops = {} THEN Len(hay) ELSE SetMin(stops))

\* hay.slice(idx, nextHeaderOrBlank(hay, idx)), or '' without a header
SectionAt(hay, idx) ==
  IF idx = -1 THEN <<>>
  ELSE Bind(nextHeaderOrBlank(hay, idx), LAMBDA end : Slice(hay, idx, end))

\* getSection(hay, headerOptions) (308-313)
getSection(hay, headerOptions) ==
  Bind(ToLower(hay),
       LAMBDA low : Bind(findHeaderIndex(low, headerOptions, 1),
                         LAMBDA idx : SectionAt(hay, idx)))

\* unique(arr): the truthy entries of arr, each once, in first-seen order (320)
RECURSIVE UniqueFrom(_, _)
UniqueFrom(arr, k) ==
  IF k > Len(arr) THEN <<>>
  ELSE IF arr[k] = <<>> \/ \E j \in 1..(k - 1) : arr[j] = arr[k]
    THEN UniqueFrom(arr, k + 1)
    ELSE <<arr[k]>> \o UniqueFrom(arr, k + 1)

unique(arr) == UniqueFrom(arr, 1)

IsPlusOrDigit(c) == c = "+" \/ IsDigit(c)

IsZero(c) == c = "0"

\* the number of "0" characters of s from index a on, up to the first other one
ZeroRun(s, a) == RunEnd(s, a, IsZero) - a

\* .replace(/^\+?0+(\d)/, '+$1'): leading zeros, after an optional plus and
\* before a digit, become one plus; 0+ gives back its last zero when no other
\* digit follows it (324)
StripLeadingZeros(s) ==
  LET a == IF Len(s) > 0 /\ s[1] = "+" THEN 1 ELSE 0
      z == ZeroRun(s, a)
      digitFollows == a + z < Len(s) /\ IsDigit(s[a + z + 1])
  IN IF z >= 1 /\ digitFollows THEN <<"+">> \o Slice(s, a + z, Len(s))
     ELSE IF z >= 2 THEN <<"+">> \o Slice(s, a + z - 1, Len(s))
     ELSE s

\* normalizePhone(s) (322-324)
normalizePhone(s) ==
  Bind(SelectSeq(s, IsPlusOrDigit), LAMBDA kept : StripLeadingZeros(kept))

\* [\d\s\-()] of the phone pattern
IsPhoneChar(c) == IsDigit(c) \/ IsWs(c) \/ c \in {"-", "(", ")"}

\* the end of the longest run of phone characters that starts at index p
SkipPhoneChars(s, p) == RunEnd(s, p, IsPhoneChar)

\* the end of the match of /(\+?\d[\d\s\-()]{8,})/ that starts at index i, or
\* -1 when the pattern does not match there (328)
PhoneMatchEnd(s, i) ==
  LET d == IF i < Len(s) /\ s[i + 1] = "+" THEN i + 1 ELSE i
  IN IF d < Len(s) /\ IsDigit(s[d + 1])
       THEN Bind(SkipPhoneChars(s, d + 1),
                 LAMBDA e : IF e - (d + 1) >= 8 THEN e ELSE -1)
       ELSE -1

\* digitCount >= 10, counted on the normalized number (332-334)
AcceptPhone(raw) ==
  Bind(normalizePhone(raw), LAMBDA normalized : CountChars(normalized, IsDigit) >= 10)

\* what extractPhonesFrom pushes for a match: found.push(raw) (334)
PushedPhone(raw) == raw

\* the body of the while loop of extractPhonesFrom for the match [i, e)
PhonesOfMatch(raw) == IF AcceptPhone(raw) THEN <<PushedPhone(raw)>> ELSE <<>>

\* the while loop of extractPhonesFrom, from lastIndex on (330-335)
RECURSIVE PhonesFound(_, _)
PhonesFound(src, lastIndex) ==
  Bind({i \in lastIndex..(Len(src) - 1) : PhoneMatchEnd(src, i) # -1},
       LAMBDA hits :
         IF hits = {} THEN <<>>
         ELSE Bind(SetMin(hits),
                LAMBDA i : Bind(PhoneMatchEnd(src, i),
                  LAMBDA e : Bind(Slice(src, i, e),
                    LAMBDA m : Bind(Trim(m),
                      LAMBDA raw : PhonesOfMatch(raw) \o PhonesFound(src, e))))))

\* extractPhonesFrom(src) (326-337)
extractPhonesFrom(src) == Bind(PhonesFound(src, 0), LAMBDA found : unique(found))

\* ---- header variants (340-355)
contactHeaders ==
  << 
  <<"C", "O", "N", "T", "A", "C", "T", " ", "&", " ", "L", "O", "C", "A",
    "T", "I", "O", "N">>, 
  <<"C", "O", "N", "T", "A", "C", "T", " ", "&", " ", "H", "O", "U", "R",
    "S">>, 
  <<"C", "O", "N", "T", "A", "C", "T", "S", " ", "&", " ", "H", "O", "U",
    "R", "S">>,
     
  <<"C", "O", "N", "T", "A", "C", "T", "/", "H", "O", "U", "R", "S">>, 
  <<"C", "O", "N", "T", "A", "C", "T", " ", "D", "E", "T", "A", "I", "L",
    "S">>, <<"C", "O", "N", "T", "A", "C", "T">>, <<"C", "O", "N", "T", "A", "C", "T", "S">> >>

hoursHeaders ==
  << 
  <<"O", "P", "E", "R", "A", "T", "I", "N", "G", " ", "H", "O", "U", "R",
    "S">>, <<"H", "O", "U", "R", "S">>, 
  <<"W", "O", "R", "K", "I", "N", "G", " ", "H", "O", "U", "R", "S">>, 
  <<"B", "U", "S", "I", "N", "E", "S", "S", " ", "H", "O", "U", "R", "S">>,
     <<"T", "I", "M", "I", "N", "G", "S">> >>

\* ---- label variants (361-371).  A label pattern is the sequence of its
\* literals, which the pattern separates by \s*; a regex with an optional
\* group is the set of its expansions.
phoneLabelRegexes ==
  << {<< <<"p", "h", "o", "n", "e">>, <<"/">>, <<"w", "h", "a", "t", "s", "a", "p", "p">>, <<":">> >>},
     {<< <<"p", "h", "o", "n", "e">>, <<"&">>, <<"w", "h", "a", "t", "s", "a", "p", "p">>, <<":">> >>},
     {<< <<"w", "h", "a", "t", "s", "a", "p", "p">>, <<":">> >>},
     {<< <<"p", "h", "o", "n", "e">>, <<":">> >>},
     {<< <<"t", "e", "l", "e", "p", "h", "o", "n", "e">>, <<":">> >>, << <<"t", "e", "l">>, <<":">> >>} >>

\* /WhatsApp/i.test(re.toString()) for the five patterns (382)
MentionsWhatsApp == <<TRUE, TRUE, TRUE, FALSE, FALSE>>

emailRegex == {<< <<"e", "m", "a", "i", "l">>, <<":">> >>}
addressRegex == {<< <<"a", "d", "d", "r", "e", "s", "s">>, <<":">> >>}
websiteRegex == {<< <<"w", "e", "b", "s", "i", "t", "e">>, <<":">> >>}

\* the result of a match that failed
NoMatch == [ok |-> FALSE, cap |-> <<>>]

\* the index after the literals lits[k..] matched, ignoring case and with \s*
\* before every literal but the first, from index p; -1 when they do not match
\* (low is s.toLowerCase(): the patterns carry the i flag)
RECURSIVE LabelEnd(_, _, _, _)
LabelEnd(low, p, lits, k) ==
  IF k > Len(lits) THEN p
  ELSE Bind(IF k = 1 THEN p ELSE SkipWs(low, p),
            LAMBDA q : IF OccursAt(low, lits[k], q)
                         THEN LabelEnd(low, q + Len(lits[k]), lits, k + 1)
                         ELSE -1)

\* where a label pattern that starts at index i ends: the longest of its
\* expansions, or -1
RegexLabelEnd(low, i, regex) ==
  Bind({LabelEnd(low, i, lits, 1) : lits \in regex} \ {-1},
       LAMBDA ends : IF ends = {} THEN -1 ELSE SetMax(ends))

\* where the group ([^\n]+) starts after \s* from index p: \s* is greedy and
\* gives characters back until one that is not "\n" follows; -1 when none does
LineCaptureStart(s, p) ==
  Bind(SkipWs(s, p),
       LAMBDA e : Bind({j \in p..e : j < Len(s) /\ s[j + 1] # "\n"},
                       LAMBDA ok : IF ok = {} THEN -1 ELSE SetMax(ok)))

\* where the group ([^\s\n]+) starts after \s* from index p, or -1
WordCaptureStart(s, p) ==
  Bind(SkipWs(s, p), LAMBDA e : IF e < Len(s) THEN e ELSE -1)

IsNotWs(c) == ~IsWs(c)

\* the end of the longest run of non-white-space characters from index p
SkipNonWs(s, p) == RunEnd(s, p, IsNotWs)

\* where the group of a label pattern starts when its label ends at p, or -1
CaptureStart(s, p, lineGroup) ==
  IF p = -1 THEN -1
  ELSE IF lineGroup THEN LineCaptureStart(s, p) ELSE WordCaptureStart(s, p)

\* the group that starts at index c: [^\n]+ or [^\s\n]+, greedy
Capture(s, c, lineGroup) ==
  Bind(IF lineGroup THEN LineEnd(s, c) ELSE SkipNonWs(s, c),
       LAMBDA e : Slice(s, c, e))

\* where the group starts when the pattern matches at index i, or -1
GroupStartAt(s, low, i, regex, lineGroup) ==
  Bind(RegexLabelEnd(low, i, regex), LAMBDA p : CaptureStart(s, p, lineGroup))

\* the leftmost match of the pattern in src, given the starts of the group for
\* every index at which the pattern matches
FirstMatch(src, starts, lineGroup) ==
  IF DOMAIN starts = {} THEN NoMatch
  ELSE Bind(SetMin(DOMAIN starts),
            LAMBDA i : [ok |-> TRUE, cap |-> Capture(src, starts[i], lineGroup)])

\* the indices at which the pattern matches, each with the start of its group
MatchStarts(src, low, regex, lineGroup) ==
  Bind([i \in 0..Len(src) |-> GroupStartAt(src, low, i, regex, lineGroup)],
       LAMBDA all : [i \in {j \in DOMAIN all : all[j] # -1} |-> all[i]])

\* src.match(regex): the leftmost match, [ok, cap] with cap the group m[1]
RegexMatch(src, regex, lineGroup) ==
  Bind(ToLower(src),
       LAMBDA low : Bind(MatchStarts(src, low, regex, lineGroup),
                         LAMBDA starts : FirstMatch(src, starts, lineGroup)))

\* take(src, regex): m[1].trim(), or null, here <<>>, like '' falsy (315-318)
take(src, regex, lineGroup) ==
  Bind(RegexMatch(src, regex, lineGroup),
       LAMBDA m : IF m.ok THEN Bind(m.cap, LAMBDA cap : Trim(cap)) ELSE <<>>)

\* what one matching phone label adds to the phones found so far (379-384)
WithLabelled(acc, k, found) ==
  [phones |-> acc.phones \o found,
   whatsapp |-> IF MentionsWhatsApp[k] /\ found # <<>>
                  THEN found[1] ELSE acc.whatsapp]

\* the body of the loop over phoneLabelRegexes for the match m of pattern k
AfterLabel(acc, k, m) ==
  IF ~m.ok THEN acc
  ELSE Bind(m.cap,
         LAMBDA cap : Bind(Trim(cap),
           LAMBDA raw : Bind(extractPhonesFrom(raw),
             LAMBDA found : WithLabelled(acc, k, found))))

\* the loop over phoneLabelRegexes (377-386): [phones, whatsapp] after the
\* patterns k.. were tried
RECURSIVE LabelledPhones(_, _, _)
LabelledPhones(block, k, acc) ==
  IF k > Len(phoneLabelRegexes) THEN acc
  ELSE Bind(RegexMatch(block, phoneLabelRegexes[k], TRUE),
         LAMBDA m : Bind(AfterLabel(acc, k, m),
           LAMBDA acc2 : LabelledPhones(block, k + 1, acc2)))

\* the lines from lines[k] on up to the first one that ends a section (405-409)
RECURSIVE TakeUntilEnd(_, _)
TakeUntilEnd(lines, k) ==
  IF k > Len(lines) \/ EndsSection(lines[k]) THEN <<>>
  ELSE <<lines[k]>> \o TakeUntilEnd(lines, k + 1)

\* hours: the lines of the hours section after its header line, up to the first
\* line that ends a section, joined and trimmed (403-411)
HoursOf(hoursBlock) ==
  IF hoursBlock = <<>> THEN <<>>
  ELSE Bind(SplitLines(hoursBlock),
         LAMBDA lines : Bind(TakeUntilEnd(lines, 2),
           LAMBDA kept : Bind(Join(kept, <<"\n">>),
             LAMBDA joined : Trim(joined))))

NullInfo ==
  [isNull |-> TRUE, phones |-> <<>>, whatsapp |-> <<>>, email |-> <<>>,
   address |-> <<>>, website |-> <<>>, hours |-> <<>>]

\* const contactBlock = getSection(text, contactHeaders) || text (357)
ContactBlockOf(fullText) ==
  Bind(getSection(fullText, contactHeaders),
       LAMBDA section : IF section # <<>> THEN section ELSE fullText)

\* the two fallbacks of the phone search: the whole contact block, then the
\* entire text (388-395)
PhonesOrScan(labelledPhones, contactBlock, fullText) ==
  IF labelledPhones # <<>> THEN labelledPhones
  ELSE Bind(extractPhonesFrom(contactBlock),
            LAMBDA inBlock : IF inBlock # <<>> THEN inBlock
                             ELSE extractPhonesFrom(fullText))

\* take(contactBlock, regex) || take(text, regex) (398-400)
Field(contactBlock, fullText, regex, lineGroup) ==
  Bind(take(contactBlock, regex, lineGroup),
       LAMBDA inBlock : IF inBlock # <<>> THEN inBlock
                        ELSE take(fullText, regex, lineGroup))

\* the hours found in the entire text (403-411)
HoursIn(fullText) ==
  Bind(getSection(fullText, hoursHeaders), LAMBDA hoursBlock : HoursOf(hoursBlock))

\* null when nothing was found, else the info object (413-436)
InfoOf(phones, whatsapp, email, address, website, hours) ==
  IF phones = <<>> /\ email = <<>> /\ address = <<>> /\ website = <<>>
       /\ hours = <<>>
    THEN NullInfo
    ELSE [isNull |-> FALSE, phones |-> unique(phones), whatsapp |-> whatsapp,
          email |-> email, address |-> address, website |-> website,
          hours |-> hours]

\* extractContactInfo once contactBlock and the labelled phones are known
InfoFrom(fullText, contactBlock, labelled) ==
  Bind(PhonesOrScan(labelled.phones, contactBlock, fullText),
    LAMBDA phones : Bind(Field(contactBlock, fullText, emailRegex, FALSE),
      LAMBDA email : Bind(Field(contactBlock, fullText, addressRegex, TRUE),
        LAMBDA address : Bind(Field(contactBlock, fullText, websiteRegex, TRUE),
          LAMBDA website : Bind(HoursIn(fullText),
            LAMBDA hours : InfoOf(phones, labelled.whatsapp, email, address,
                                  website, hours))))))

\* extractContactInfo once contactBlock is known
InfoIn(fullText, contactBlock) ==
  Bind(LabelledPhones(contactBlock, 1, [phones |-> <<>>, whatsapp |-> <<>>]),
       LAMBDA labelled : InfoFrom(fullText, contactBlock, labelled))

\* FileProcessor.extractContactInfo(fullText) (276-437); null strings are <<>>
extractContactInfo(fullText) ==
  Bind(ContactBlockOf(fullText),
       LAMBDA contactBlock : InfoIn(fullText, contactBlock))

\* ------------------------------------- FileProcessor.appendContactCard
CardBegin == 
  <<"=", "=", "=", " ", "C", "O", "N", "T", "A", "C", "T", "_", "C", "A",
    "R", "D", " ", "=", "=", "=">>

CardEnd == 
  <<"=", "=", "=", " ", "E", "N", "D", "_", "C", "O", "N", "T", "A", "C",
    "T", "_", "C", "A", "R", "D", " ", "=", "=", "=">>

\* a labelled line of the card, or nothing when the field is absent
CardLine(label, value) == IF value = <<>> THEN <<>> ELSE <<label \o value>>

\* cardLines (file-processor.mjs 448-470)
CardLines(ci) ==
  <<CardBegin>>
    \o CardLine(<<"P", "h", "o", "n", "e", ":", " ">>, Join(ci.phones, <<" ", ",", " ">>))
    \o CardLine(<<"W", "h", "a", "t", "s", "A", "p", "p", ":", " ">>, ci.whatsapp)
    \o CardLine(<<"E", "m", "a", "i", "l", ":", " ">>, ci.email)
    \o CardLine(<<"A", "d", "d", "r", "e", "s", "s", ":", " ">>, ci.address)
    \o CardLine(<<"W", "e", "b", "s", "i", "t", "e", ":", " ">>, ci.website)
    \o CardLine(<<"H", "o", "u", "r", "s", ":", "\n">>, ci.hours)
    \o <<CardEnd>>

\* the card, a blank line, the input (472-473)
Carded(ci, cleanedText) ==
  Bind(CardLines(ci),
       LAMBDA cardLines : Join(cardLines, <<"\n">>) \o <<"\n", "\n">> \o cleanedText)

\* mutant of WithCard: the card synthesized also when nothing was found
WithCardAlways(ci, cleanedText) == Carded(ci, cleanedText)

\* appendContactCard after const info = extractContactInfo(cleanedText):
\* the input when info is null, else the card, a blank line, the input
\* (444-473)
WithCard(ci, cleanedText) ==
  IF ci.isNull THEN cleanedText ELSE Carded(ci, cleanedText)

\* FileProcessor.appendContactCard(cleanedText) (442-474)
appendContactCard(cleanedText) ==
  Bind(extractContactInfo(cleanedText), LAMBDA ci : WithCard(ci, cleanedText))

\* ---------------------------------------------- FileProcessor.cleanText
\* .replace(/\r\n/g, '\n') (140): the "\r" of every "\r\n" goes
ReplaceCRLF(s) ==
  LET Keep(i) == ~(s[i] = "\r" /\ i < Len(s) /\ s[i + 1] = "\n")
  IN Keeping(s, Keep)

\* .replace(/c/g, d) for single characters c and d (141, 143)
ReplaceChar(s, c, d) == [i \in 1..Len(s) |-> IF s[i] = c THEN d ELSE s[i]]

\* .replace(/c{n,}/g, c repeated n - 1 times): of every run of n or more c
\* the first n - 1 stay (142, 144)
CollapseRuns(s, c, n) ==
  LET Keep(i) == ~(i >= n /\ \A k \in 0..(n - 1) : s[i - k] = c)
  IN Keeping(s, Keep)

\* the first three replacements of cleanText (140-142)
NormalizeLines(t) ==
  Bind(t, LAMBDA t0 : Bind(ReplaceCRLF(t0),
    LAMBDA t1 : Bind(ReplaceChar(t1, "\r", "\n"),
      LAMBDA t2 : CollapseRuns(t2, "\n", 3))))

\* .replace(/[  ]{2,}/g, ' ').trim() (144-145); the no-break space is
\* outside the modelled alphabet
CollapseSpaces(t) ==
  Bind(CollapseRuns(t, " ", 2), LAMBDA t5 : Trim(t5))

\* FileProcessor.cleanText(text) (138-146)
cleanText(t) ==
  Bind(NormalizeLines(t),
    LAMBDA t3 : Bind(ReplaceChar(t3, "\t", " "),
      LAMBDA t4 : CollapseSpaces(t4)))


\* ------------------------------------------- FileProcessor.processFile
\* the placeholder returned for a pdf (19)
PdfPlaceholder(name) ==
  
  <<"P", "D", "F", " ", "C", "o", "n", "t", "e", "n", "t", " ", "f", "r",
    "o", "m", " ">> \o name \o 
  <<"\n", "\n", "T", "h", "i", "s", " ", "P", "D", "F", " ", "f", "i", "l",
    "e", " ", "h", "a", "s", " ", "b", "e", "e", "n", " ", "u", "p", "l",
    "o", "a", "d", "e", "d", " ", "b", "u", "t", " ", "t", "e", "x", "t",
    " ", "e", "x", "t", "r", "a", "c", "t", "i", "o", "n", " ", "i", "s",
    " ", "b", "e", "i", "n", "g", " ", "p", "r", "o", "c", "e", "s", "s",
    "e", "d", ".", " ", "P", "l", "e", "a", "s", "e", " ", "p", "r", "o",
    "v", "i", "d", "e", " ", "t", "h", "e", " ", "k", "e", "y", " ", "i",
    "n", "f", "o", "r", "m", "a", "t", "i", "o", "n", " ", "f", "r", "o",
    "m", " ", "t", "h", "i", "s", " ", "P", "D", "F", " ", "i", "n", " ",
    "t", "h", "e", " ", "c", "h", "a", "t", " ", "o", "r", " ", "u", "p",
    "l", "o", "a", "d", " ", "a", "s", " ", "a", " ", "t", "e", "x", "t",
    "/", "w", "o", "r", "d", " ", "f", "i", "l", "e", " ", "f", "o", "r",
    " ", "n", "o", "w", ".">>

\* the text processCSV builds for a file with the one column "c" and one
\* record whose cell holds cell (84-93)
CsvText(cell) ==
  
  <<"D", "a", "t", "a", " ", "S", "u", "m", "m", "a", "r", "y", ":", "\n",
    "\n", "C", "o", "l", "u", "m", "n", "s", ":", " ", "c", "\n", "\n",
    "C", "o", "n", "t", "e", "n", "t", ":", "\n">> \o 
  <<"\n", "R", "e", "c", "o", "r", "d", " ", "1", ":", "\n">>
    \o (IF cell # <<>> /\ Trim(cell) # <<>>
          THEN <<"-", " ", "c", ":", " ">> \o cell \o <<"\n">> ELSE <<>>)

\* the text processExcel builds for a workbook with the one sheet "S" whose
\* first row holds the one cell cell (112-129)
ExcelText(cell) ==
  
  <<"\n", "\n", "S", "h", "e", "e", "t", ":", " ", "S", "\n">> \o <<"=", "=", "=", "=", "=", "=", "=", "=", "\n">>
    \o (IF cell # <<>> /\ Trim(cell) # <<>>
          THEN <<"R", "o", "w", " ", "1", ":", " ">> \o cell \o <<"\n">> ELSE <<>>)

\* the tail shared by processText, processDocx, processCSV and processExcel:
\* cleanText, then appendContactCard (50-51, 61-62, 95-96, 131-132)
Finish(raw) ==
  /\ cleaned' = cleanText(raw)
  /\ info' = extractContactInfo(cleaned')
  /\ result' = WithCard(info', cleaned')
  /\ carded' = TRUE
  /\ fpc' = "done"

\* the original names tried for a pdf
PdfNames == { <<"a", ".", "p", "d", "f">>, <<"a", "\t", "b", ".", "p", "d", "f">> }

\* case 'pdf' (17-19)
ProcessPdf ==
  /\ fpc = "call"
  /\ \E name \in PdfNames :
       /\ fileType' = "pdf"
       /\ originalName' = name
       /\ result' = PdfPlaceholder(name)
  /\ fpc' = "done"
  /\ UNCHANGED <<content, cleaned, info, carded, notFile>>

\* case 'csv' (21-22)
ProcessCSV ==
  /\ fpc = "call"
  /\ fileType' = "csv"
  /\ Finish(CsvText(content))
  /\ UNCHANGED <<content, originalName, notFile>>

\* case 'txt', 'plain', 'text' (24-27)
ProcessText ==
  /\ fpc = "call"
  /\ fileType' \in {"txt", "plain", "text"}
  /\ Finish(content)
  /\ UNCHANGED <<content, originalName, notFile>>

\* case 'docx' (29-30): mammoth's raw text is the content
ProcessDocx ==
  /\ fpc = "call"
  /\ fileType' = "docx"
  /\ Finish(content)
  /\ UNCHANGED <<content, originalName, notFile>>

\* case 'xlsx', 'xls' (32-34)
ProcessExcel ==
  /\ fpc = "call"
  /\ fileType' \in {"xlsx", "xls"}
  /\ Finish(ExcelText(content))
  /\ UNCHANGED <<content, originalName, notFile>>

\* default: throw new Error('Unsupported file type') (36-43)
ProcessUnsupported ==
  /\ fpc = "call"
  /\ fileType' \in {"exe", "png"}
  /\ fpc' = "threw"
  /\ UNCHANGED <<content, originalName, cleaned, info, result, carded, notFile>>

\* the pieces the file contents are put together from
Pieces ==
  { <<"C", "O", "N", "T", "A", "C", "T", "\n">>,
  <<"C", "O", "N", "T", "A", "C", "T", "\n", "P", "h", "o", "n", "e", ":",
    " ", "+", "9", "1", "-", "9", "8", "7", "6", "5", "-", "4", "3", "2",
    "1", "0", "\n">>, <<"P", "h", "o", "n", "e", ":", " ">>, 
  <<"+", "9", "1", "-", "9", "8", "7", "6", "5", "-", "4", "3", "2", "1",
    "0">>, <<"\n">>,
    
  <<"E", "m", "a", "i", "l", ":", " ", "a", "@", "b", ".", "c", "o">>, <<"2", "0", "1", "9", " ", "2", "0", "2", "0", " ">>, <<"R", "s", " ", "1", "5", "0", "0", " ">>,
    
  <<"=", "=", "=", " ", "C", "O", "N", "T", "A", "C", "T", "_", "C", "A",
    "R", "D", " ", "=", "=", "=", "\n", "P", "h", "o", "n", "e", ":", " ",
    "9", "8", "7", "6", "5", "4", "3", "2", "1", "0", "\n", "=", "=", "=",
    " ", "E", "N", "D", "_", "C", "O", "N", "T", "A", "C", "T", "_", "C",
    "A", "R", "D", " ", "=", "=", "=", "\n", "\n">>,
    <<"\t", "\r", "\n">>, 
  <<"H", "O", "U", "R", "S", "\n", "M", "o", "n", " ", "9", "-", "5", "\n">> }

RECURSIVE Contents(_)
Contents(n) ==
  IF n = 0 THEN {<<>>}
  ELSE Contents(n - 1) \cup {c \o p : c \in Contents(n - 1), p \in Pieces}

InitFile ==
  /\ content \in Contents(MaxPieces)
  /\ fileType = ""
  /\ originalName = <<>>
  /\ cleaned = <<>>
  /\ info = NullInfo
  /\ result = <<>>
  /\ carded = FALSE
  /\ fpc = "call"

\* ------------------------------------------------------ lib/database.mjs
\* a query without the key condition: the rows of every business
AllChunks(table, b) ==
  [j \in 1..Len(table) |->
     [id |-> j, content |-> table[j].content,
      embedding |-> table[j].embedding]]

\* the rows of the chunks table that belong to businessId, as the chunk objects
\* getBusinessChunks builds from them; a chunk's id is its place in the table
\* (chat.js 381-408 for DynamoDB, 905-921 for SQLite)
ChunksOf(table, b) ==
  Bind(SelectSeq([k \in 1..Len(table) |-> k],
                 LAMBDA k : table[k].business_id = b),
       LAMBDA idx : [j \in 1..Len(idx) |->
                       [id |-> idx[j],
                        content |-> table[idx[j]].content,
                        embedding |-> table[idx[j]].embedding]])

\* what the call getBusinessChunks(businessId) evaluates to, unawaited: the
\* DynamoDB version is an async function and gives a Promise of the chunks, the
\* SQLite version gives the chunks
getBusinessChunks(db, table, b) ==
  [isPromise |-> db = "dynamodb", items |-> ChunksOf(table, b)]

\* ------------------------------------------------------ lib/ai-system.mjs
\* the keys of isContactLike (part_003 43-46)
ContactKeys ==
  { <<"c", "o", "n", "t", "a", "c", "t">>, <<"p", "h", "o", "n", "e">>, <<"c", "a", "l", "l">>, <<"w", "h", "a", "t", "s", "a", "p", "p">>, <<"e", "m", "a", "i", "l">>, <<"a", "d", "d", "r", "e", "s", "s">>,
    <<"l", "o", "c", "a", "t", "i", "o", "n">>, <<"m", "a", "p">>, <<"r", "e", "a", "c", "h">>, <<"v", "i", "s", "i", "t">>, <<"h", "o", "u", "r", "s">>, <<"t", "i", "m", "i", "n", "g", "s">>,
    
  <<"w", "o", "r", "k", "i", "n", "g", " ", "h", "o", "u", "r", "s">>, 
  <<"b", "u", "s", "i", "n", "e", "s", "s", " ", "h", "o", "u", "r", "s">> }

\* AISystem.isContactLike(text) (part_003 41-48)
isContactLike(t) ==
  Bind(ToLower(t), LAMBDA low : \E k \in ContactKeys : Includes(low, k))

\* the markers of contactChunkScore with their weights (part_003 54-60)
ContactMarkers ==
  { [mark |-> 
  <<"=", "=", "=", " ", "c", "o", "n", "t", "a", "c", "t", "_", "c", "a",
    "r", "d", " ", "=", "=", "=">>, weight |-> 10],
    [mark |-> <<"p", "h", "o", "n", "e", ":">>, weight |-> 3],
    [mark |-> <<"w", "h", "a", "t", "s", "a", "p", "p", ":">>, weight |-> 2],
    [mark |-> <<"e", "m", "a", "i", "l", ":">>, weight |-> 2],
    [mark |-> <<"a", "d", "d", "r", "e", "s", "s", ":">>, weight |-> 2],
    [mark |-> <<"w", "e", "b", "s", "i", "t", "e", ":">>, weight |-> 1],
    [mark |-> <<"h", "o", "u", "r", "s", ":">>, weight |-> 2] }

\* the sum of the weights of a set of markers
RECURSIVE SumWeights(_)
SumWeights(S) ==
  IF S = {} THEN 0
  ELSE Bind(CHOOSE m \in S : TRUE,
            LAMBDA m : m.weight + SumWeights(S \ {m}))

\* AISystem.contactChunkScore(s) (part_003 50-62)
contactChunkScore(s) ==
  Bind(ToLower(s),
       LAMBDA low : Bind({m \in ContactMarkers : Includes(low, m.mark)},
                         LAMBDA present : SumWeights(present)))

\* the dot product of two embeddings
RECURSIVE DotFrom(_, _, _)
DotFrom(a, b, i) ==
  IF i > Len(a) THEN 0 ELSE a[i] * b[i] + DotFrom(a, b, i + 1)

\* AISystem.calculateCosineSimilarity(a, b) (part_003 26-38), times 25: the
\* embeddings of the model all have length 5, so the quotient is the dot
\* product over 25, up to the guard of 1e-8, and orders like the dot product
calculateCosineSimilarity(a, b) == DotFrom(a, b, 1)

\* the place of items[k] after items.sort((a, b) => Score(b) - Score(a)): the
\* sort is stable
Rank(items, k, Score(_)) ==
  1 + Cardinality({j \in DOMAIN items :
                     \/ Score(items[j]) > Score(items[k])
                     \/ Score(items[j]) = Score(items[k]) /\ j < k})

\* items.sort((a, b) => Score(b) - Score(a))
SortDesc(items, Score(_)) ==
  [r \in 1..Len(items) |->
     items[CHOOSE k \in DOMAIN items : Rank(items, k, Score) = r]]

\* scored (part_003 72-75)
Scored(items, qe) ==
  SortDesc(items, LAMBDA ch : calculateCosineSimilarity(qe, ch.embedding))

\* the chunks with a positive contact score, best first (part_003 81-84)
ContactRanked(items) ==
  Bind(SelectSeq(items, LAMBDA ch : contactChunkScore(ch.content) > 0),
       LAMBDA positive :
         SortDesc(positive, LAMBDA ch : contactChunkScore(ch.content)))

\* an override that pushes the best contact chunk as slot K + 1
PushedBestContact(sel, ranked, k) ==
  IF ranked # <<>> /\ ~\E i \in DOMAIN sel : sel[i].id = ranked[1].id
    THEN sel \o <<ranked[1]>>
    ELSE sel

\* the override (part_003 86-89): the best contact chunk takes the last slot
\* unless it is selected already
WithBestContact(sel, ranked, k) ==
  IF ranked # <<>> /\ ~\E i \in DOMAIN sel : sel[i].id = ranked[1].id
    THEN Slice(sel, 0, k - 1) \o <<ranked[1]>>
    ELSE sel

\* selected, for chunks that are an array (part_003 72-91)
Selected(items, q, qe, k) ==
  Bind(Scored(items, qe),
       LAMBDA scored : Bind(Slice(scored, 0, k),
         LAMBDA sel : IF isContactLike(q)
                        THEN Bind(ContactRanked(items),
                                  LAMBDA ranked : WithBestContact(sel, ranked, k))
                        ELSE sel))

\* the ids of a list of chunks
Ids(sel) == [i \in 1..Len(sel) |-> sel[i].id]

\* the embeddings createEmbedding can give: vectors of length 5
Embeddings == { <<5, 0>>, <<4, 3>>, <<0, 5>> }

Businesses == {"b1", "b2"}

\* const queryEmbedding = await this.createEmbedding(query) (part_003 67)
RetrieveEmbed ==
  /\ rpc = "call"
  /\ \E e \in Embeddings : queryEmbedding' = e
  /\ rpc' = "embedded"
  /\ UNCHANGED <<backend, stored, businessId, query, topK, fetched, returned,
                 caught, notRetrieve>>

\* createEmbedding throws (part_003 20-23): caught, return [] (92-95)
RetrieveEmbedFails ==
  /\ rpc = "call"
  /\ returned' = <<>>
  /\ caught' = "embedding"
  /\ rpc' = "done"
  /\ UNCHANGED <<backend, stored, businessId, query, topK, queryEmbedding,
                 fetched, notRetrieve>>

\* const chunks = getBusinessChunks(businessId) || [] (part_003 68): no await,
\* and a Promise is truthy
RetrieveFetch ==
  /\ rpc = "embedded"
  /\ fetched' = getBusinessChunks(backend, stored, businessId)
  /\ rpc' = "fetched"
  /\ UNCHANGED <<backend, stored, businessId, query, topK, queryEmbedding,
                 returned, caught, notRetrieve>>

\* if (chunks.length === 0) return [] (part_003 69): the length of a Promise
\* is undefined
RetrieveNoChunks ==
  /\ rpc = "fetched"
  /\ ~fetched.isPromise
  /\ Len(fetched.items) = 0
  /\ returned' = <<>>
  /\ rpc' = "done"
  /\ UNCHANGED <<backend, stored, businessId, query, topK, queryEmbedding,
                 fetched, caught, notRetrieve>>

\* chunks.map (part_003 72) on a Promise: map is not a function, the TypeError
\* is caught, return [] (92-95)
RetrieveTypeError ==
  /\ rpc = "fetched"
  /\ fetched.isPromise
  /\ returned' = <<>>
  /\ caught' = "TypeError"
  /\ rpc' = "done"
  /\ UNCHANGED <<backend, stored, businessId, query, topK, queryEmbedding,
                 fetched, notRetrieve>>

\* scoring, selection, override, return selected (part_003 72-91)
RetrieveSelect ==
  /\ rpc = "fetched"
  /\ ~fetched.isPromise
  /\ Len(fetched.items) > 0
  /\ returned' = Ids(Selected(fetched.items, query, queryEmbedding, topK))
  /\ rpc' = "done"
  /\ UNCHANGED <<backend, stored, businessId, query, topK, queryEmbedding,
                 fetched, caught, notRetrieve>>

\* the texts of the stored chunks
ChunkContents ==
  { 
  <<"=", "=", "=", " ", "C", "O", "N", "T", "A", "C", "T", "_", "C", "A",
    "R", "D", " ", "=", "=", "=", "\n", "P", "h", "o", "n", "e", ":", " ",
    "9", "8", "7", "6", "5", "4", "3", "2", "1", "0">>, 
  <<"E", "m", "a", "i", "l", ":", " ", "a", "@", "b", ".", "c", "o">>, <<"O", "u", "r", " ", "m", "e", "n", "u">> }

\* the queries asked
Queries == { 
  <<"W", "h", "a", "t", "'", "s", " ", "y", "o", "u", "r", " ", "p", "h",
    "o", "n", "e", " ", "n", "u", "m", "b", "e", "r", "?">>, <<"m", "e", "n", "u", "?">> }

\* the rows a chunks table can hold
Rows ==
  [business_id : Businesses, content : ChunkContents, embedding : Embeddings]

\* the rows of business b
RowsOf(b) == {r \in Rows : r.business_id = b}

\* the chunks tables: every table of up to MaxStored rows, and the tables of
\* one row more whose rows all belong to the first business and differ in
\* their text
Tables ==
  UNION {[1..n -> Rows] : n \in 0..MaxStored}
    \cup {t \in [1..(MaxStored + 1) -> RowsOf("b1")] :
            \A i \in DOMAIN t : \A j \in DOMAIN t :
              i # j => t[i].content # t[j].content}

InitRetrieve ==
  /\ backend \in {"dynamodb", "sqlite"}
  /\ stored \in Tables
  /\ businessId \in Businesses
  /\ query \in Queries
  /\ topK \in 1..MaxTopK
  /\ queryEmbedding = <<>>
  /\ fetched = [isPromise |-> FALSE, items |-> <<>>]
  /\ returned = <<>>
  /\ caught = "none"
  /\ rpc = "call"

NextRetrieve ==
  \/ RetrieveEmbed
  \/ RetrieveEmbedFails
  \/ RetrieveFetch
  \/ RetrieveNoChunks
  \/ RetrieveTypeError
  \/ RetrieveSelect

\* -------------------------- server.mjs: POST /admin/business/create-and-upload
\* const MAX_CHUNKS = 30 (server.mjs 1208)
MAX_CHUNKS == 30

\* const BATCH_SIZE = 5 (server.mjs 1216)
BATCH_SIZE == 5

\* allowedTypes of the fileFilter of multer (server.mjs 82)
allowedTypes == { <<"p", "d", "f">>, <<"c", "s", "v">>, <<"t", "x", "t">>, <<"d", "o", "c", "x">>, <<"x", "l", "s", "x">>, <<"x", "l", "s">> }

\* the cases of the switch of processFile (file-processor.mjs 16-34)
SupportedTypes ==
  { <<"p", "d", "f">>, <<"c", "s", "v">>, <<"t", "x", "t">>, <<"p", "l", "a", "i", "n">>, <<"t", "e", "x", "t">>, <<"d", "o", "c", "x">>, <<"x", "l", "s", "x">>, <<"x", "l", "s">> }

\* file.originalname.split('.').pop()?.toLowerCase() (server.mjs 83)
FilterExt(name) ==
  Bind(LastIndexOf(name, <<".">>, Len(name)),
       LAMBDA i : Bind(Slice(name, i + 1, Len(name)), LAMBDA e : ToLower(e)))

\* path.extname(file.originalname).slice(1).toLowerCase() (server.mjs 1188),
\* for a name without directories: nothing for a name that has no dot or only
\* a leading one
ExtName(name) ==
  Bind(LastIndexOf(name, <<".">>, Len(name)),
       LAMBDA i : IF i <= 0 THEN <<>>
                  ELSE Bind(Slice(name, i + 1, Len(name)), LAMBDA e : ToLower(e)))

\* the errors the try block of a file can end with before its chunks are
\* processed: processFile throws for an unsupported type (36-43) and when the
\* extraction fails (the pdf case reads nothing, 17-19); saveDocument throws
FailuresOf(name) ==
  Bind(ExtName(name),
       LAMBDA ext : IF ext \notin SupportedTypes THEN {"Unsupported file type"}
                    ELSE IF ext = <<"p", "d", "f">> THEN {"saveDocument failed"}
                    ELSE {"extraction failed", "saveDocument failed"})

\* the response before res.json / res.status(...).json is called
NoResponse ==
  [status |-> 0, success |-> FALSE, filesProcessed |-> 0, totalFiles |-> 0,
   totalChunks |-> 0, results |-> <<>>]

\* res.status(code).json({ error })
ErrorResponse(code) == [NoResponse EXCEPT !.status = code]

\* the number of results with status 'success' (server.mjs 1298)
CountSuccess(results) ==
  Cardinality({k \in DOMAIN results : results[k].status = "success"})

\* the fileFilter accepts every file (server.mjs 81-89): multer stores them and
\* calls the handler
MulterAccepts ==
  /\ upc = "multer"
  /\ \A k \in DOMAIN files : FilterExt(files[k]) \in allowedTypes
  /\ tempFiles' = DOMAIN files
  /\ upc' = "handler"
  /\ UNCHANGED <<files, env, fileIdx, uploadResults, totalChunks, chunkCount,
                 chunksInFile, limitedCount, bi, failed, response, outcomes, started, inflight, batchResults,
                 savedChunks, outstanding, notUpload>>

\* the fileFilter rejects a file with cb(new Error(...)) (server.mjs 87):
\* multer removes what it stored and passes the error on, the handler is not
\* called, and the error handler answers 500 as the error is no MulterError
\* (server.mjs 1363-1373)
MulterRejects ==
  /\ upc = "multer"
  /\ \E k \in DOMAIN files : FilterExt(files[k]) \notin allowedTypes
  /\ tempFiles' = {}
  /\ response' = ErrorResponse(500)
  /\ upc' = "done"
  /\ UNCHANGED <<files, env, fileIdx, uploadResults, totalChunks, chunkCount,
                 chunksInFile, limitedCount, bi, failed, outcomes, started, inflight, batchResults,
                 savedChunks, outstanding, notUpload>>

\* the status of the early answers of the handler: invalid JSON and missing
\* fields 400 (1138, 1164), slug taken 409 (1169), a database error in
\* getBusinessBySlug, createBusiness or getBusinessById 500 (1304-1308)
EarlyStatus(e) ==
  IF e \in {"badJson", "noSlug"} THEN 400
  ELSE IF e = "slugTaken" THEN 409
  ELSE 500

\* the handler answers before any file is processed
HandlerRejects ==
  /\ upc = "handler"
  /\ env # "ok"
  /\ response' = ErrorResponse(EarlyStatus(env))
  /\ upc' = "done"
  /\ UNCHANGED <<files, env, fileIdx, uploadResults, totalChunks, chunkCount,
                 chunksInFile, limitedCount, bi, failed, tempFiles, outcomes, started, inflight, batchResults,
                 savedChunks, outstanding, notUpload>>

\* the business is created (server.mjs 1173-1175); let uploadResults = [],
\* totalChunks = 0 (1181-1182)
HandlerCreates ==
  /\ upc = "handler"
  /\ env = "ok"
  /\ uploadResults' = <<>>
  /\ totalChunks' = 0
  /\ fileIdx' = 1
  /\ upc' = "files"
  /\ UNCHANGED <<files, env, chunkCount, chunksInFile, limitedCount, bi,
                 failed, tempFiles, response, outcomes, started, inflight, batchResults,
                 savedChunks, outstanding, notUpload>>

\* processFile or saveDocument throws for the file (server.mjs 1189-1199): the
\* catch pushes an error entry (1278-1280), the finally removes the temp file
\* (1281-1284)
FileFails ==
  /\ upc = "files"
  /\ fileIdx <= Len(files)
  /\ \E cause \in FailuresOf(files[fileIdx]) :
       uploadResults' =
         Append(uploadResults,
                [filename |-> files[fileIdx], status |-> "error",
                 error |-> cause, chunks |-> 0, totalChunksInFile |-> 0,
                 processedChunks |-> 0])
  /\ failed' = failed \cup {fileIdx}
  /\ tempFiles' = tempFiles \ {fileIdx}
  /\ fileIdx' = fileIdx + 1
  /\ UNCHANGED <<files, env, totalChunks, chunkCount, chunksInFile,
                 limitedCount, bi, response, upc, outcomes, started, inflight, batchResults,
                 savedChunks, outstanding, notUpload>>

\* how many chunks chunkText returns for a file: none, one, more than a
\* batch, more than the cap
ChunkCounts == {0, 1, BATCH_SIZE + 1, MAX_CHUNKS + 1}

\* the chunks without the cap: chunks.length
allChunks(n) == n

\* limitedChunks.length, limitedChunks = chunks.slice(0, MAX_CHUNKS), for
\* chunks.length = n (server.mjs 1209)
limitedChunks(n) == Min(n, MAX_CHUNKS)

\* what the try block of a batch promise can end with (server.mjs 1230-1244):
\* both awaits return, createEmbedding rejects, the 15 s timer rejects first,
\* saveChunk rejects
Outcomes == {"ok", "error", "timeout", "savefail"}

\* the chunks of a file that do not end "ok": none, the first, one of the
\* first batch and one of the second
BadSets == {{}, {0}, {1, BATCH_SIZE}}

\* what happens to the n chunks of a file, chunk by chunk
Patterns(n) ==
  {[j \in 0..(n - 1) |-> IF j \in bad THEN o ELSE "ok"] :
     bad \in {b \in BadSets : b \subseteq 0..(n - 1)},
     o \in Outcomes \ {"ok"}}

\* processFile and saveDocument return; const chunks = chunkText(content),
\* let chunkCount = 0, limitedChunks = chunks.slice(0, MAX_CHUNKS)
\* (server.mjs 1189-1209); the document is new, no chunk is stored for it
FileChunked ==
  /\ upc = "files"
  /\ fileIdx <= Len(files)
  /\ ExtName(files[fileIdx]) \in SupportedTypes
  /\ \E n \in ChunkCounts :
       /\ chunksInFile' = n
       /\ limitedCount' = limitedChunks(n)
       /\ outcomes' \in Patterns(limitedChunks(n))
  /\ chunkCount' = 0
  /\ bi' = 0
  /\ started' = {}
  /\ inflight' = {}
  /\ batchResults' = {}
  /\ savedChunks' = {}
  /\ upc' = "batch"
  /\ UNCHANGED <<files, env, fileIdx, uploadResults, totalChunks, failed,
                 tempFiles, response, outstanding, notUpload>>

\* the chunkIndex = i + batchIndex of the chunks of
\* limitedChunks.slice(i, i + BATCH_SIZE) (server.mjs 1219, 1227)
BatchOf(i, n) == i..(Min(i + BATCH_SIZE, n) - 1)

\* one embedding call at the provider: the file and the chunk it is for
Call(f, j) == [file |-> f, chunk |-> j]

\* batch.map(async (chunk, batchIndex) => ...) (server.mjs 1226-1245): every
\* promise of the batch runs to its first await, the race of createEmbedding
\* with the timer, so the embedding call of every chunk of the batch is made
BatchStart ==
  /\ upc = "batch"
  /\ bi < limitedCount
  /\ started' = started \cup BatchOf(bi, limitedCount)
  /\ inflight' = inflight \cup BatchOf(bi, limitedCount)
  /\ outstanding' =
       outstanding \cup {Call(fileIdx, j) : j \in BatchOf(bi, limitedCount)}
  /\ batchResults' = {}
  /\ upc' = "await"
  /\ UNCHANGED <<files, env, fileIdx, uploadResults, totalChunks, chunkCount,
                 chunksInFile, limitedCount, bi, failed, tempFiles, response,
                 outcomes, savedChunks, notUpload>>

\* the value a batch promise resolves with (server.mjs 1240, 1243)
ChunkResult(j, o) == [success |-> (o = "ok"), chunkIndex |-> j]

\* one promise of the batch settles (server.mjs 1230-1244): the embedding is
\* there and saveChunk stores the chunk under chunkIndex; or the catch takes
\* what createEmbedding, the timer or saveChunk threw. The race with the timer
\* does not cancel the embedding call, which stays with the provider.
ChunkSettles ==
  /\ upc = "await"
  /\ \E j \in inflight :
       /\ savedChunks' =
            IF outcomes[j] = "ok" THEN savedChunks \cup {j} ELSE savedChunks
       /\ outstanding' =
            IF outcomes[j] = "timeout" THEN outstanding
            ELSE outstanding \ {Call(fileIdx, j)}
       /\ batchResults' = batchResults \cup {ChunkResult(j, outcomes[j])}
       /\ inflight' = inflight \ {j}
  /\ UNCHANGED <<files, env, fileIdx, uploadResults, totalChunks, chunkCount,
                 chunksInFile, limitedCount, bi, failed, tempFiles, response,
                 upc, outcomes, started, notUpload>>

\* a loop that does not wait for the promises of the batch
NotAwaited(pending) == TRUE

\* the number of settled promises, whatever their value
SettledCount(results) == Cardinality(results)

\* await Promise.allSettled(batchPromises) returns when no promise of the
\* batch is pending (server.mjs 1249)
AllSettled(pending) == pending = {}

\* successCount: the settled promises whose value has success (1250-1252)
SuccessCount(results) == Cardinality({r \in results : r.success})

\* the end of one iteration of for (let i = 0; i < limitedChunks.length;
\* i += BATCH_SIZE) (server.mjs 1218, 1249-1260): the promises of the batch
\* are settled, chunkCount grows by the number of successes
Batch ==
  /\ upc = "await"
  /\ AllSettled(inflight)
  /\ chunkCount' = chunkCount + SuccessCount(batchResults)
  /\ bi' = bi + BATCH_SIZE
  /\ upc' = "batch"
  /\ UNCHANGED <<files, env, fileIdx, uploadResults, totalChunks,
                 chunksInFile, limitedCount, failed, tempFiles, response,
                 outcomes, started, inflight, batchResults, savedChunks,
                 outstanding, notUpload>>

\* a provider answer that is saved although the race was lost
SavedLate(saved, c) == saved \cup {c.chunk}

\* the chunk records after the provider answers a call whose race the timer
\* had won: Promise.race has rejected, the catch has returned (server.mjs
\* 1232-1244), and nothing waits for createEmbedding any more; saveChunk
\* (1239) is not reached
AfterLateAnswer(saved, c) == saved

\* the provider answers an embedding call whose race the timer had won: the
\* answer is dropped
LateAnswer ==
  /\ upc \in {"files", "batch", "await", "done"}
  /\ \E c \in outstanding :
       /\ ~(upc = "await" /\ c.file = fileIdx /\ c.chunk \in inflight)
       /\ outstanding' = outstanding \ {c}
       /\ savedChunks' = AfterLateAnswer(savedChunks, c)
  /\ UNCHANGED <<files, env, fileIdx, uploadResults, totalChunks, chunkCount,
                 chunksInFile, limitedCount, bi, failed, tempFiles, response,
                 upc, outcomes, started, inflight, batchResults, notUpload>>

\* the batches are through: the success entry is pushed (server.mjs
\* 1268-1277), the finally removes the temp file (1281-1284)
FileDone ==
  /\ upc = "batch"
  /\ bi >= limitedCount
  /\ uploadResults' =
       Append(uploadResults,
              [filename |-> files[fileIdx], status |-> "success",
               error |-> "", chunks |-> chunkCount,
               totalChunksInFile |-> chunksInFile,
               processedChunks |-> limitedCount])
  /\ totalChunks' = totalChunks + chunkCount
  /\ tempFiles' = tempFiles \ {fileIdx}
  /\ fileIdx' = fileIdx + 1
  /\ upc' = "files"
  /\ UNCHANGED <<files, env, chunkCount, chunksInFile, limitedCount, bi,
                 failed, response, outcomes, started, inflight, batchResults,
                 savedChunks, outstanding, notUpload>>

\* res.json({ success: true, ..., upload }) (server.mjs 1287-1303)
Respond ==
  /\ upc = "files"
  /\ fileIdx > Len(files)
  /\ response' =
       [status |-> 200, success |-> TRUE,
        filesProcessed |-> CountSuccess(uploadResults),
        totalFiles |-> Len(uploadResults),
        totalChunks |-> totalChunks,
        results |-> uploadResults]
  /\ upc' = "done"
  /\ UNCHANGED <<files, env, fileIdx, uploadResults, totalChunks, chunkCount,
                 chunksInFile, limitedCount, bi, failed, tempFiles, outcomes, started, inflight, batchResults,
                 savedChunks, outstanding, notUpload>>

\* the original names of the uploaded files
Names == { <<"a", ".", "t", "x", "t">>, <<"b", ".", "p", "d", "f">>, <<"c", ".", "e", "x", "e">>, <<".", "t", "x", "t">>, <<"d", ".", "d", "o", "c", "x">> }

\* what the request and the database are like
Envs == {"ok", "badJson", "noSlug", "slugTaken", "dbDown"}

InitUpload ==
  /\ files \in UNION {[1..n -> Names] : n \in 0..MaxFiles}
  /\ env \in Envs
  /\ fileIdx = 0
  /\ uploadResults = <<>>
  /\ totalChunks = 0
  /\ chunkCount = 0
  /\ chunksInFile = 0
  /\ limitedCount = 0
  /\ bi = 0
  /\ failed = {}
  /\ tempFiles = {}
  /\ response = NoResponse
  /\ upc = "multer"
  /\ outcomes = <<>>
  /\ started = {}
  /\ inflight = {}
  /\ batchResults = {}
  /\ savedChunks = {}
  /\ outstanding = {}

NextUpload ==
  \/ MulterAccepts
  \/ MulterRejects
  \/ HandlerRejects
  \/ HandlerCreates
  \/ FileFails
  \/ FileChunked
  \/ BatchStart
  \/ ChunkSettles
  \/ Batch
  \/ LateAnswer
  \/ FileDone
  \/ Respond

\* ------------------------------------ part_003: AISystem.generateResponse
\* the placeholder of a field the business record lacks: the dash of
\* ${business.phone || ...} (part_003 188-193), written in ASCII
Dash == <<"-">>

\* the string the catch block returns (part_003 177)
TechnicalDifficulties == 
  <<"I", " ", "a", "p", "o", "l", "o", "g", "i", "z", "e", ",", " ", "b",
    "u", "t", " ", "I", "'", "m", " ", "e", "x", "p", "e", "r", "i", "e",
    "n", "c", "i", "n", "g", " ", "t", "e", "c", "h", "n", "i", "c", "a",
    "l", " ", "d", "i", "f", "f", "i", "c", "u", "l", "t", "i", "e", "s",
    ".", " ", "P", "l", "e", "a", "s", "e", " ", "t", "r", "y", " ", "a",
    "g", "a", "i", "n", " ", "i", "n", " ", "a", " ", "m", "o", "m", "e",
    "n", "t", ".">>

\* the string returned for an answer without content (part_003 174)
TroubleGenerating == 
  <<"I", " ", "a", "p", "o", "l", "o", "g", "i", "z", "e", ",", " ", "b",
    "u", "t", " ", "I", " ", "h", "a", "d", " ", "t", "r", "o", "u", "b",
    "l", "e", " ", "g", "e", "n", "e", "r", "a", "t", "i", "n", "g", " ",
    "a", " ", "r", "e", "s", "p", "o", "n", "s", "e", ".", " ", "P", "l",
    "e", "a", "s", "e", " ", "t", "r", "y", " ", "a", "g", "a", "i", "n",
    ".">>

\* v || placeholder (part_003 188-193)
OrDash(v) == IF v = <<>> THEN Dash ELSE v

\* if (v) lines.push(label + v) (part_003 102-111)
CardField(label, v) == IF v = <<>> THEN <<>> ELSE <<label \o v>>

\* the WhatsApp line of the fallback card (part_003 103-107)
WhatsAppField(b) ==
  IF b.whatsapp # <<>> \/ Includes(ToLower(b.phone), <<"w", "h", "a", "t", "s", "a", "p", "p">>)
    THEN CardField(<<"W", "h", "a", "t", "s", "A", "p", "p", ":", " ">>, IF b.whatsapp # <<>> THEN b.whatsapp ELSE b.phone)
    ELSE <<>>

FallbackBegin == 
  <<"=", "=", "=", " ", "F", "A", "L", "L", "B", "A", "C", "K", "_", "C",
    "O", "N", "T", "A", "C", "T", "_", "C", "A", "R", "D", " ", "=", "=",
    "=">>

FallbackEnd == 
  <<"=", "=", "=", " ", "E", "N", "D", "_", "F", "A", "L", "L", "B", "A",
    "C", "K", "_", "C", "O", "N", "T", "A", "C", "T", "_", "C", "A", "R",
    "D", " ", "=", "=", "=">>

\* lines of buildFallbackContactCard (part_003 101-112)
FallbackLines(b) ==
  <<FallbackBegin>> \o CardField(<<"P", "h", "o", "n", "e", ":", " ">>, b.phone) \o WhatsAppField(b)
    \o CardField(<<"E", "m", "a", "i", "l", ":", " ">>, b.email) \o CardField(<<"A", "d", "d", "r", "e", "s", "s", ":", " ">>, b.address)
    \o CardField(<<"W", "e", "b", "s", "i", "t", "e", ":", " ">>, b.website) \o CardField(<<"H", "o", "u", "r", "s", ":", "\n">>, b.hours)
    \o <<FallbackEnd>>

\* buildFallbackContactCard(business) (part_003 100-114)
buildFallbackContactCard(b) ==
  Bind(FallbackLines(b), LAMBDA lines : Join(lines, <<"\n">>))

\* the substrings contextSeemsToHaveContact looks for (part_003 119-122)
ContextContactMarkers ==
  { 
  <<"=", "=", "=", " ", "c", "o", "n", "t", "a", "c", "t", "_", "c", "a",
    "r", "d", " ", "=", "=", "=">>, <<"p", "h", "o", "n", "e", ":">>, <<"w", "h", "a", "t", "s", "a", "p", "p", ":">>, <<"e", "m", "a", "i", "l", ":">>, <<"a", "d", "d", "r", "e", "s", "s", ":">>, <<"w", "e", "b", "s", "i", "t", "e", ":">>, <<"h", "o", "u", "r", "s", ":">> }

\* contextSeemsToHaveContact(context) (part_003 116-124)
contextSeemsToHaveContact(ctx) ==
  Bind(ToLower(ctx), LAMBDA t : \E m \in ContextContactMarkers : Includes(t, m))

\* the query asks for contact details and the context has none: the branch of
\* ensureContactInContext that builds the fallback card (part_003 129)
NeedsFallback(ctx, q) == isContactLike(q) /\ ~contextSeemsToHaveContact(ctx)

\* a context that is never touched: no safety net
contextAsIs(ctx, b, q) == ctx

\* ensureContactInContext(context, business, query) (part_003 127-134)
ensureContactInContext(ctx, b, q) ==
  IF NeedsFallback(ctx, q)
    THEN Bind(buildFallbackContactCard(b),
              LAMBDA fallback :
                Bind(fallback \o <<"\n", "\n">> \o ctx, LAMBDA joined : Trim(joined)))
    ELSE ctx

\* `[${index + 1}] ` for the chunks a context can hold (part_003 140)
IndexLabel(i) ==
  <<"[", <<"1", "2", "3", "4", "5", "6", "7", "8", "9">>[i], "]", " ">>

\* (relevantChunks || []).map(...).join('\n\n') (part_003 139-141)
ContextOf(chs) ==
  Bind([i \in 1..Len(chs) |-> IndexLabel(i) \o chs[i].content],
       LAMBDA parts : Join(parts, <<"\n", "\n">>))

\* the head of the CONTEXT block (part_003 207-210)
ContextHeading == 
  <<"\n", "\n", "C", "O", "N", "T", "E", "X", "T", " ", "(", "r", "e", "t",
    "r", "i", "e", "v", "e", "d", " ", "k", "n", "o", "w", "l", "e", "d",
    "g", "e", ")", ":", "\n">>

\* the tail of the CONTEXT block (part_003 211-212)
ContextTail == 
  <<"\n", "\n", "A", "n", "s", "w", "e", "r", " ", "t", "h", "e", " ", "u",
    "s", "e", "r", " ", "u", "s", "i", "n", "g", " ", "t", "h", "e", " ",
    "c", "o", "n", "t", "e", "x", "t", ".", " ", "I", "f", " ", "t", "h",
    "e", " ", "c", "o", "n", "t", "e", "x", "t", " ", "l", "a", "c", "k",
    "s", " ", "a", " ", "r", "e", "q", "u", "e", "s", "t", "e", "d", " ",
    "f", "i", "e", "l", "d", ",", " ", "s", "a", "f", "e", "l", "y", " ",
    "b", "a", "c", "k", "f", "i", "l", "l", " ", "f", "r", "o", "m", " ",
    "B", "U", "S", "I", "N", "E", "S", "S", " ", "I", "N", "F", "O", "R",
    "M", "A", "T", "I", "O", "N", ".", " ", "I", "f", " ", "t", "h", "e",
    "y", " ", "c", "o", "n", "f", "l", "i", "c", "t", ",", " ", "p", "r",
    "e", "f", "e", "r", " ", "C", "O", "N", "T", "E", "X", "T", ".">>

\* the fixed text of basePrompt after the business fields (part_003 194-204),
\* its typographic apostrophe written in ASCII
Guidelines == 
  <<"\n", "\n", "P", "E", "R", "S", "O", "N", "A", "L", "I", "T", "Y", " ",
    "&", " ", "S", "T", "Y", "L", "E", ":", "\n", "-", " ", "F", "r", "i",
    "e", "n", "d", "l", "y", ",", " ", "p", "r", "o", "f", "e", "s", "s",
    "i", "o", "n", "a", "l", ",", " ", "c", "o", "n", "v", "e", "r", "s",
    "a", "t", "i", "o", "n", "a", "l", ";", " ", "a", "v", "o", "i", "d",
    " ", "s", "o", "u", "n", "d", "i", "n", "g", " ", "r", "o", "b", "o",
    "t", "i", "c", ".", "\n", "-", " ", "U", "s", "e", " ", "n", "a", "t",
    "u", "r", "a", "l", " ", "l", "a", "n", "g", "u", "a", "g", "e", " ",
    "t", "h", "a", "t", " ", "f", "e", "e", "l", "s", " ", "h", "u", "m",
    "a", "n", ";", " ", "b", "e", " ", "c", "o", "n", "c", "i", "s", "e",
    " ", "b", "u", "t", " ", "c", "o", "m", "p", "l", "e", "t", "e", ".",
    "\n", "-", " ", "O", "f", "f", "e", "r", " ", "t", "o", " ", "h", "e",
    "l", "p", " ", "f", "u", "r", "t", "h", "e", "r", " ", "o", "r", " ",
    "c", "o", "n", "n", "e", "c", "t", " ", "w", "i", "t", "h", " ", "a",
    " ", "h", "u", "m", "a", "n", " ", "w", "h", "e", "n", " ", "a", "p",
    "p", "r", "o", "p", "r", "i", "a", "t", "e", ".", "\n", "\n", "R", "E",
    "S", "P", "O", "N", "S", "E", " ", "G", "U", "I", "D", "E", "L", "I",
    "N", "E", "S", ":", "\n", "-", " ", "P", "r", "e", "f", "e", "r", " ",
    "i", "n", "f", "o", "r", "m", "a", "t", "i", "o", "n", " ", "i", "n",
    " ", "t", "h", "e", " ", "C", "O", "N", "T", "E", "X", "T", " ", "b",
    "e", "l", "o", "w", ".", " ", "I", "f", " ", "a", " ", "r", "e", "q",
    "u", "e", "s", "t", "e", "d", " ", "f", "i", "e", "l", "d", " ", "i",
    "s", " ", "m", "i", "s", "s", "i", "n", "g", " ", "i", "n", " ", "t",
    "h", "e", " ", "c", "o", "n", "t", "e", "x", "t", ",", " ", "u", "s",
    "e", " ", "B", "U", "S", "I", "N", "E", "S", "S", " ", "I", "N", "F",
    "O", "R", "M", "A", "T", "I", "O", "N", " ", "a", "b", "o", "v", "e",
    ".", "\n", "-", " ", "F", "o", "r", " ", "c", "o", "n", "t", "a", "c",
    "t", "/", "l", "o", "c", "a", "t", "i", "o", "n", " ", "q", "u", "e",
    "s", "t", "i", "o", "n", "s", ",", " ", "c", "o", "p", "y", " ", "n",
    "u", "m", "b", "e", "r", "s", ",", " ", "e", "m", "a", "i", "l", "s",
    ",", " ", "U", "R", "L", "s", ",", " ", "a", "n", "d", " ", "a", "d",
    "d", "r", "e", "s", "s", "e", "s", " ", "e", "x", "a", "c", "t", "l",
    "y", " ", "a", "s", " ", "w", "r", "i", "t", "t", "e", "n", " ", "(",
    "n", "o", " ", "p", "a", "r", "a", "p", "h", "r", "a", "s", "i", "n",
    "g", ")", ".", "\n", "-", " ", "N", "e", "v", "e", "r", " ", "i", "n",
    "v", "e", "n", "t", " ", "p", "r", "i", "c", "e", "s", ",", " ", "d",
    "a", "t", "e", "s", ",", " ", "o", "r", " ", "d", "e", "t", "a", "i",
    "l", "s", " ", "n", "o", "t", " ", "p", "r", "e", "s", "e", "n", "t",
    " ", "i", "n", " ", "t", "h", "e", " ", "c", "o", "n", "t", "e", "x",
    "t", " ", "o", "r", " ", "b", "u", "s", "i", "n", "e", "s", "s", " ",
    "i", "n", "f", "o", ".", "\n", "-", " ", "I", "f", " ", "s", "o", "m",
    "e", "t", "h", "i", "n", "g", " ", "t", "r", "u", "l", "y", " ", "i",
    "s", "n", "'", "t", " ", "a", "v", "a", "i", "l", "a", "b", "l", "e",
    " ", "i", "n", " ", "e", "i", "t", "h", "e", "r", ",", " ", "s", "a",
    "y", " ", "s", "o", " ", "p", "l", "a", "i", "n", "l", "y", " ", "a",
    "n", "d", " ", "o", "f", "f", "e", "r", " ", "n", "e", "x", "t", " ",
    "s", "t", "e", "p", "s", ".">>

\* the business fields of basePrompt (part_003 184-193)
BusinessInformation(b) ==
  
  <<"Y", "o", "u", " ", "a", "r", "e", " ", "a", " ", "h", "e", "l", "p",
    "f", "u", "l", " ", "A", "I", " ", "a", "s", "s", "i", "s", "t", "a",
    "n", "t", " ", "f", "o", "r", " ">> \o b.name
    \o 
  <<".", "\n", "\n", "B", "U", "S", "I", "N", "E", "S", "S", " ", "I", "N",
    "F", "O", "R", "M", "A", "T", "I", "O", "N", " ", "(", "a", "u", "t",
    "h", "o", "r", "i", "t", "a", "t", "i", "v", "e", " ", "f", "a", "l",
    "l", "b", "a", "c", "k", " ", "i", "f", " ", "t", "h", "e", " ", "c",
    "o", "n", "t", "e", "x", "t", " ", "l", "a", "c", "k", "s", " ", "s",
    "p", "e", "c", "i", "f", "i", "c", "s", ")", ":", "\n", "-", " ", "N",
    "a", "m", "e", ":", " ">> \o b.name
    \o 
  <<"\n", "-", " ", "D", "e", "s", "c", "r", "i", "p", "t", "i", "o", "n",
    ":", " ">> \o OrDash(b.description)
    \o <<"\n", "-", " ", "P", "h", "o", "n", "e", ":", " ">> \o OrDash(b.phone)
    \o <<"\n", "-", " ", "E", "m", "a", "i", "l", ":", " ">> \o OrDash(b.email)
    \o 
  <<"\n", "-", " ", "A", "d", "d", "r", "e", "s", "s", ":", " ">> \o OrDash(b.address)
    \o 
  <<"\n", "-", " ", "W", "e", "b", "s", "i", "t", "e", ":", " ">> \o OrDash(b.website)
    \o <<"\n", "-", " ", "H", "o", "u", "r", "s", ":", " ">> \o OrDash(b.hours)

\* basePrompt (part_003 184-204)
basePrompt(b) == BusinessInformation(b) \o Guidelines

\* buildSystemPrompt(business, context) (part_003 181-217)
buildSystemPrompt(b, ctx) ==
  Bind(basePrompt(b),
       LAMBDA base :
         IF ctx # <<>> /\ Trim(ctx) # <<>>
           THEN base \o ContextHeading \o ctx \o ContextTail
           ELSE base)

\* what the try block throws before the chat model is called, "none" if
\* nothing: chunk.content of a chunk that is null (140), business.phone or
\* business.name of a business that is null (102, 184)
BuildError(b, chs) ==
  IF \E i \in DOMAIN chs : chs[i].isNull THEN "TypeError"
  ELSE IF b.isNull THEN "TypeError"
  ELSE "none"

\* an error that leaves generateResponse
Rethrown(error) == [reply |-> <<>>, thrown |-> error]

\* catch (error) { ...; return '...technical difficulties...' }
\* (part_003 175-178)
Caught(error) == [reply |-> TechnicalDifficulties, thrown |-> "none"]

\* the messages before the chat model is called
NoMessages == [system |-> <<>>, history |-> 0, user |-> <<>>]

\* the try block up to the call of the chat model (part_003 139-164): the
\* context, the system prompt, the last 6 turns of the history, the query
GenBuild ==
  /\ gpc = "call"
  /\ BuildError(business, relevantChunks) = "none"
  /\ context' =
       Bind(ContextOf(relevantChunks),
            LAMBDA ctx : ensureContactInContext(ctx, business, userQuery))
  /\ messages' =
       [system |-> buildSystemPrompt(business, context'),
        history |-> Min(sessionHistory, 6),
        user |-> userQuery]
  /\ gpc' = "built"
  /\ UNCHANGED <<business, userQuery, relevantChunks, sessionHistory,
                 chatModel, reply, thrown, notRespond>>

\* the try block throws before the chat model is called
GenBuildThrows ==
  /\ gpc = "call"
  /\ BuildError(business, relevantChunks) # "none"
  /\ reply' = Caught(BuildError(business, relevantChunks)).reply
  /\ thrown' = Caught(BuildError(business, relevantChunks)).thrown
  /\ gpc' = "done"
  /\ UNCHANGED <<business, userQuery, relevantChunks, sessionHistory,
                 chatModel, context, messages, notRespond>>

\* the answer of the chat model (part_003 173)
Answer == <<"S", "u", "r", "e", ".">>

\* the chat model answers with content (part_003 166-173)
GenModelAnswers ==
  /\ gpc = "built"
  /\ chatModel = "answers"
  /\ reply' = Answer
  /\ gpc' = "done"
  /\ UNCHANGED <<business, userQuery, relevantChunks, sessionHistory,
                 chatModel, context, messages, thrown, notRespond>>

\* the chat model answers without a choice, or with one without content:
\* response.choices[0]?.message?.content is falsy (part_003 173-174)
GenModelEmpty ==
  /\ gpc = "built"
  /\ chatModel \in {"noChoice", "noContent"}
  /\ reply' = TroubleGenerating
  /\ gpc' = "done"
  /\ UNCHANGED <<business, userQuery, relevantChunks, sessionHistory,
                 chatModel, context, messages, thrown, notRespond>>

\* the call of the chat model rejects, or its answer has no choices array so
\* that response.choices[0] throws (part_003 166-178)
GenModelThrows ==
  /\ gpc = "built"
  /\ chatModel \in {"APIError", "TypeError"}
  /\ reply' = Caught(chatModel).reply
  /\ thrown' = Caught(chatModel).thrown
  /\ gpc' = "done"
  /\ UNCHANGED <<business, userQuery, relevantChunks, sessionHistory,
                 chatModel, context, messages, notRespond>>

\* a business record without a field
NoBusiness ==
  [isNull |-> TRUE, name |-> <<>>, description |-> <<>>, phone |-> <<>>,
   whatsapp |-> <<>>, email |-> <<>>, address |-> <<>>, website |-> <<>>,
   hours |-> <<>>]

\* the business records: none, one with a name only, one with a phone that
\* is on WhatsApp, one with every field
BusinessRecords ==
  { NoBusiness,
    [NoBusiness EXCEPT !.isNull = FALSE, !.name = <<"C", "a", "f", "e">>],
    [NoBusiness EXCEPT !.isNull = FALSE, !.name = <<"C", "a", "f", "e">>,
                       !.phone = 
  <<"+", "9", "1", "1", "2", "3", "4", "5", "6", "7", "8", "9", "0", " ",
    "(", "W", "h", "a", "t", "s", "A", "p", "p", ")">>],
    [isNull |-> FALSE, name |-> <<"C", "a", "f", "e">>, description |-> <<"C", "o", "f", "f", "e", "e">>,
     phone |-> 
  <<"+", "9", "1", "1", "2", "3", "4", "5", "6", "7", "8", "9", "0">>, whatsapp |-> 
  <<"+", "9", "1", "0", "9", "8", "7", "6", "5", "4", "3", "2", "1">>,
     email |-> <<"a", "@", "b", ".", "c", "o">>, address |-> <<"1", " ", "M", "a", "i", "n", " ", "S", "t">>,
     website |-> <<"b", ".", "c", "o">>, hours |-> <<"9", "-", "5">>] }

\* the chunks retrieval can hand over, and a null
GivenChunks ==
  {[isNull |-> FALSE, content |-> c] : c \in ChunkContents}
    \cup {[isNull |-> TRUE, content |-> <<>>]}

\* the lengths of sessionHistory: none, fewer than 6 turns, more
HistoryLengths == {0, 2, 7}

\* what the chat model does with the request
ChatModels == {"answers", "noChoice", "noContent", "APIError", "TypeError"}

InitRespond ==
  /\ business \in BusinessRecords
  /\ userQuery \in Queries
  /\ relevantChunks \in UNION {[1..n -> GivenChunks] : n \in 0..MaxChunksGiven}
  /\ sessionHistory \in HistoryLengths
  /\ chatModel \in ChatModels
  /\ context = <<>>
  /\ messages = NoMessages
  /\ reply = <<>>
  /\ thrown = "none"
  /\ gpc = "call"

NextRespond ==
  \/ GenBuild
  \/ GenBuildThrows
  \/ GenModelAnswers
  \/ GenModelEmpty
  \/ GenModelThrows

\* ------------------------------------- FileProcessor.extractKeywords
\* the words the second filter drops (file-processor.mjs 190)
StopWords ==
  { <<"t", "h", "i", "s">>, <<"t", "h", "a", "t">>, <<"w", "i", "t", "h">>, <<"h", "a", "v", "e">>, <<"w", "i", "l", "l">>, <<"f", "r", "o", "m">>, <<"t", "h", "e", "y">>, <<"b", "e", "e", "n">>, <<"s", "a", "i", "d">>, <<"e", "a", "c", "h">>, <<"w", "h", "i", "c", "h">>, <<"t", "h", "e", "i", "r">>, <<"t", "i", "m", "e">>, <<"w", "o", "u", "l", "d">>, <<"t", "h", "e", "r", "e">>, <<"c", "o", "u", "l", "d">>, <<"o", "t", "h", "e", "r">> }

\* \w
IsWordChar(c) ==
  \/ IsDigit(c)
  \/ IsUpper(c)
  \/ c = "_"
  \/ \E i \in DOMAIN LowerLetters : LowerLetters[i] = c

\* replace(/[^\w\s]/g, ' ') (file-processor.mjs 187)
BlankNonWord(s) ==
  [i \in 1..Len(s) |-> IF IsWordChar(s[i]) \/ IsWs(s[i]) THEN s[i] ELSE " "]

\* s.slice(j).split(/\s+/) for j at the start of a piece (file-processor.mjs
\* 188): white space at either end of the string gives an empty piece
RECURSIVE SplitWsFrom(_, _)
SplitWsFrom(s, j) ==
  Bind(SkipNonWs(s, j),
       LAMBDA e : IF e = Len(s) THEN <<Slice(s, j, e)>>
                  ELSE Bind(SkipWs(s, e),
                            LAMBDA n : <<Slice(s, j, e)>> \o SplitWsFrom(s, n)))

\* the two filters (file-processor.mjs 189-190)
IsKeyword(w) == Len(w) > 3 /\ w \notin StopWords

\* words (file-processor.mjs 186-190)
WordsOf(t) ==
  Bind(ToLower(t),
       LAMBDA low : Bind(BlankNonWord(low),
         LAMBDA blanked : Bind(SplitWsFrom(blanked, 0),
           LAMBDA pieces : SelectSeq(pieces, IsKeyword))))

\* frequency[w] after the forEach (file-processor.mjs 192-195)
Frequency(ws, w) == Cardinality({i \in DOMAIN ws : ws[i] = w})

\* the keys of frequency in the order they were created: the words from
\* ws[k] on that do not occur before
RECURSIVE CreatedFrom(_, _)
CreatedFrom(ws, k) ==
  IF k > Len(ws) THEN <<>>
  ELSE IF \E j \in 1..(k - 1) : ws[j] = ws[k] THEN CreatedFrom(ws, k + 1)
  ELSE <<ws[k]>> \o CreatedFrom(ws, k + 1)

\* the number the first k digits of w stand for
RECURSIVE NumValue(_, _)
NumValue(w, k) ==
  IF k = 0 THEN 0
  ELSE 10 * NumValue(w, k - 1)
         + (CHOOSE d \in 0..9 :
              <<"0", "1", "2", "3", "4", "5", "6", "7", "8", "9">>[d + 1] = w[k])

\* the key is an array index: the canonical decimal form of an integer, as
\* far as nine digits go. An ordinary object lists such keys first, in
\* ascending numeric order, whenever they were created.
IsArrayIndex(w) ==
  /\ Len(w) \in 1..9
  /\ \A i \in DOMAIN w : IsDigit(w[i])
  /\ Len(w) = 1 \/ w[1] # "0"

\* the words of Object.entries(frequency) (file-processor.mjs 197): the
\* array-index keys in ascending numeric order, then the other keys in the
\* order they were created
Entries(ws) ==
  Bind(CreatedFrom(ws, 1),
       LAMBDA keys :
         Bind(SelectSeq(keys, IsArrayIndex),
              LAMBDA indexKeys :
                SortDesc(indexKeys, LAMBDA w : 0 - NumValue(w, Len(w)))
                  \o SelectSeq(keys, LAMBDA w : ~IsArrayIndex(w))))

\* .sort(([, a], [, b]) => b - a).slice(0, limit).map(([word]) => word)
\* (file-processor.mjs 198-200): the sort is stable
TopWords(ws, n) ==
  Bind(Entries(ws),
       LAMBDA entries :
         Bind(SortDesc(entries, LAMBDA w : Frequency(ws, w)),
              LAMBDA sorted : Slice(sorted, 0, n)))

\* words and frequency are built (file-processor.mjs 186-195)
KeywordsCount ==
  /\ kpc = "call"
  /\ kwWords' = WordsOf(kwText)
  /\ kpc' = "counted"
  /\ UNCHANGED <<kwText, limit, kwTop, keywords, notKeywords>>

\* the entries are sorted, cut and joined (file-processor.mjs 197-201)
KeywordsRank ==
  /\ kpc = "counted"
  /\ kwTop' = TopWords(kwWords, limit)
  /\ keywords' = Join(kwTop', <<",", " ">>)
  /\ kpc' = "done"
  /\ UNCHANGED <<kwText, limit, kwWords, notKeywords>>

\* the pieces the texts are made of: words, a word with capitals and
\* punctuation, digit-only tokens, a stop word, a short word
KeywordPieces ==
  { <<"d", "o", "g", "s">>, <<"C", "a", "t", "s", "!">>, <<"2", "0", "2", "5">>, <<"1", "0", "0", "0">>, <<"t", "h", "i", "s">>, <<"c", "a", "t">> }

\* the texts: up to MaxWords pieces with a space between them
KeywordTexts ==
  {Join(ps, <<" ">>) : ps \in UNION {[1..n -> KeywordPieces] : n \in 0..MaxWords}}

InitKeywords ==
  /\ kwText \in KeywordTexts
  /\ limit \in 1..MaxLimit
  /\ kwWords = <<>>
  /\ kwTop = <<>>
  /\ keywords = <<>>
  /\ kpc = "call"

NextKeywords ==
  \/ KeywordsCount
  \/ KeywordsRank

\* ------------------------------------ FileProcessor.categorizeContent
\* the categories in the order they are declared (file-processor.mjs 218-240)
CategoryOrder ==
  <<"hours", "contact", "menu", "reservations", "courses", "admissions",
    "faculty", "services", "doctors", "pricing", "delivery", "directions",
    "policies", "events", "amenities", "technology", "support", "offers",
    "dietary", "faq", "social">>

\* config.keywords of the categories (file-processor.mjs 218-240)
CategoryKeywords ==
  [ hours |->
      << <<"h", "o", "u", "r", "s">>,
         <<"t", "i", "m", "i", "n", "g">>,
         <<"s", "c", "h", "e", "d", "u", "l", "e">>,
         <<"m", "o", "n", "d", "a", "y">>,
         <<"t", "u", "e", "s", "d", "a", "y">>,
         <<"w", "e", "d", "n", "e", "s", "d", "a", "y">>,
         <<"t", "h", "u", "r", "s", "d", "a", "y">>,
         <<"f", "r", "i", "d", "a", "y">>,
         <<"s", "a", "t", "u", "r", "d", "a", "y">>,
         <<"s", "u", "n", "d", "a", "y">>,
         <<"a", "m">>,
         <<"p", "m">>,
         <<"o", "p", "e", "n">>,
         <<"c", "l", "o", "s", "e">>,
         <<"o", "p", "e", "r", "a", "t", "i", "n", "g">>,
         <<"b", "u", "s", "i", "n", "e", "s", "s", " ", "h", "o", "u", "r", "s">>,
         <<"o", "p", "e", "n", "i", "n", "g", " ", "h", "o", "u", "r", "s">>,
         <<"c", "l", "o", "s", "i", "n", "g", " ", "t", "i", "m", "e">>,
         <<"w", "e", "e", "k", "d", "a", "y", "s">>,
         <<"w", "e", "e", "k", "e", "n", "d", "s">> >>,
    contact |->
      << <<"c", "o", "n", "t", "a", "c", "t">>,
         <<"p", "h", "o", "n", "e">>,
         <<"e", "m", "a", "i", "l">>,
         <<"a", "d", "d", "r", "e", "s", "s">>,
         <<"l", "o", "c", "a", "t", "i", "o", "n">>,
         <<"c", "a", "l", "l">>,
         <<"r", "e", "a", "c", "h">>,
         <<"t", "e", "l", "e", "p", "h", "o", "n", "e">>,
         <<"m", "o", "b", "i", "l", "e">>,
         <<"w", "h", "a", "t", "s", "a", "p", "p">>,
         <<"g", "m", "a", "i", "l">>,
         <<"y", "a", "h", "o", "o">>,
         <<"h", "o", "t", "m", "a", "i", "l">>,
         <<"s", "t", "r", "e", "e", "t">>,
         <<"c", "i", "t", "y">>,
         <<"p", "i", "n", "c", "o", "d", "e">>,
         <<"z", "i", "p">> >>,
    menu |->
      << <<"m", "e", "n", "u">>,
         <<"f", "o", "o", "d">>,
         <<"d", "i", "s", "h">>,
         <<"c", "u", "i", "s", "i", "n", "e">>,
         <<"a", "p", "p", "e", "t", "i", "z", "e", "r">>,
         <<"s", "t", "a", "r", "t", "e", "r">>,
         <<"m", "a", "i", "n">>,
         <<"d", "e", "s", "s", "e", "r", "t">>,
         <<"b", "e", "v", "e", "r", "a", "g", "e">>,
         <<"d", "r", "i", "n", "k">>,
         <<"c", "u", "r", "r", "y">>,
         <<"r", "i", "c", "e">>,
         <<"b", "r", "e", "a", "d">>,
         <<"n", "a", "a", "n">>,
         <<"b", "i", "r", "y", "a", "n", "i">>,
         <<"p", "i", "z", "z", "a">>,
         <<"b", "u", "r", "g", "e", "r">>,
         <<"s", "a", "n", "d", "w", "i", "c", "h">>,
         <<"s", "a", "l", "a", "d">>,
         <<"s", "o", "u", "p">> >>,
    reservations |->
      << <<"r", "e", "s", "e", "r", "v", "a", "t", "i", "o", "n">>,
         <<"b", "o", "o", "k", "i", "n", "g">>,
         <<"t", "a", "b", "l", "e">>,
         <<"s", "e", "a", "t">>,
         <<"w", "a", "i", "t", "l", "i", "s", "t">>,
         <<"b", "o", "o", "k">>,
         <<"r", "e", "s", "e", "r", "v", "e">>,
         <<"a", "d", "v", "a", "n", "c", "e", " ", "b", "o", "o", "k", "i", "n", "g">>,
         <<"p", "a", "r", "t", "y", " ", "s", "i", "z", "e">>,
         <<"g", "r", "o", "u", "p", " ", "b", "o", "o", "k", "i", "n", "g">> >>,
    courses |->
      << <<"c", "o", "u", "r", "s", "e">>,
         <<"p", "r", "o", "g", "r", "a", "m">>,
         <<"c", "u", "r", "r", "i", "c", "u", "l", "u", "m">>,
         <<"s", "u", "b", "j", "e", "c", "t">>,
         <<"s", "y", "l", "l", "a", "b", "u", "s">>,
         <<"c", "l", "a", "s", "s">>,
         <<"l", "e", "c", "t", "u", "r", "e">>,
         <<"t", "u", "t", "o", "r", "i", "a", "l">>,
         <<"w", "o", "r", "k", "s", "h", "o", "p">>,
         <<"t", "r", "a", "i", "n", "i", "n", "g">>,
         <<"c", "e", "r", "t", "i", "f", "i", "c", "a", "t", "i", "o", "n">>,
         <<"d", "e", "g", "r", "e", "e">>,
         <<"d", "i", "p", "l", "o", "m", "a">>,
         <<"s", "e", "m", "e", "s", "t", "e", "r">>,
         <<"b", "a", "t", "c", "h">>,
         <<"m", "o", "d", "u", "l", "e">> >>,
    admissions |->
      << <<"a", "d", "m", "i", "s", "s", "i", "o", "n">>,
         <<"e", "n", "r", "o", "l", "l">>,
         <<"e", "n", "r", "o", "l", "l", "m", "e", "n", "t">>,
         <<"a", "p", "p", "l", "i", "c", "a", "t", "i", "o", "n">>,
         <<"a", "p", "p", "l", "y">>,
         <<"e", "l", "i", "g", "i", "b", "i", "l", "i", "t", "y">>,
         <<"r", "e", "q", "u", "i", "r", "e", "m", "e", "n", "t">>,
         <<"e", "n", "t", "r", "a", "n", "c", "e">>,
         <<"s", "e", "l", "e", "c", "t", "i", "o", "n">>,
         <<"i", "n", "t", "e", "r", "v", "i", "e", "w">>,
         <<"d", "o", "c", "u", "m", "e", "n", "t">>,
         <<"f", "o", "r", "m">>,
         <<"d", "e", "a", "d", "l", "i", "n", "e">>,
         <<"r", "e", "g", "i", "s", "t", "r", "a", "t", "i", "o", "n">> >>,
    faculty |->
      << <<"f", "a", "c", "u", "l", "t", "y">>,
         <<"t", "e", "a", "c", "h", "e", "r">>,
         <<"i", "n", "s", "t", "r", "u", "c", "t", "o", "r">>,
         <<"p", "r", "o", "f", "e", "s", "s", "o", "r">>,
         <<"t", "r", "a", "i", "n", "e", "r">>,
         <<"s", "t", "a", "f", "f">>,
         <<"e", "x", "p", "e", "r", "i", "e", "n", "c", "e">>,
         <<"q", "u", "a", "l", "i", "f", "i", "c", "a", "t", "i", "o", "n">>,
         <<"e", "x", "p", "e", "r", "t", "i", "s", "e">>,
         <<"t", "e", "a", "c", "h", "i", "n", "g">>,
         <<"m", "e", "n", "t", "o", "r">> >>,
    services |->
      << <<"s", "e", "r", "v", "i", "c", "e">>,
         <<"t", "r", "e", "a", "t", "m", "e", "n", "t">>,
         <<"t", "h", "e", "r", "a", "p", "y">>,
         <<"c", "o", "n", "s", "u", "l", "t", "a", "t", "i", "o", "n">>,
         <<"d", "i", "a", "g", "n", "o", "s", "i", "s">>,
         <<"p", "r", "o", "c", "e", "d", "u", "r", "e">>,
         <<"s", "u", "r", "g", "e", "r", "y">>,
         <<"c", "h", "e", "c", "k", "u", "p">>,
         <<"e", "x", "a", "m", "i", "n", "a", "t", "i", "o", "n">>,
         <<"t", "e", "s", "t">>,
         <<"s", "c", "a", "n">>,
         <<"x", "-", "r", "a", "y">>,
         <<"m", "e", "d", "i", "c", "i", "n", "e">>,
         <<"p", "r", "e", "s", "c", "r", "i", "p", "t", "i", "o", "n">> >>,
    doctors |->
      << <<"d", "o", "c", "t", "o", "r">>,
         <<"p", "h", "y", "s", "i", "c", "i", "a", "n">>,
         <<"s", "p", "e", "c", "i", "a", "l", "i", "s", "t">>,
         <<"s", "u", "r", "g", "e", "o", "n">>,
         <<"c", "o", "n", "s", "u", "l", "t", "a", "n", "t">>,
         <<"m", "e", "d", "i", "c", "a", "l">>,
         <<"c", "l", "i", "n", "i", "c">>,
         <<"h", "o", "s", "p", "i", "t", "a", "l">>,
         <<"p", "a", "t", "i", "e", "n", "t">>,
         <<"a", "p", "p", "o", "i", "n", "t", "m", "e", "n", "t">> >>,
    pricing |->
      << <<"p", "r", "i", "c", "e">>,
         <<"c", "o", "s", "t">>,
         <<"f", "e", "e">>,
         <<"c", "h", "a", "r", "g", "e">>,
         <<"r", "a", "t", "e">>,
         <<"t", "a", "r", "i", "f", "f">>,
         <<"a", "m", "o", "u", "n", "t">>,
         <<"r", "u", "p", "e", "e">>,
         <<"d", "o", "l", "l", "a", "r">>,
         <<"p", "a", "y", "m", "e", "n", "t">>,
         <<"d", "i", "s", "c", "o", "u", "n", "t">>,
         <<"o", "f", "f", "e", "r">>,
         <<"p", "a", "c", "k", "a", "g", "e", " ", "d", "e", "a", "l">> >>,
    delivery |->
      << <<"d", "e", "l", "i", "v", "e", "r", "y">>,
         <<"t", "a", "k", "e", "a", "w", "a", "y">>,
         <<"p", "i", "c", "k", "u", "p">>,
         <<"o", "r", "d", "e", "r">>,
         <<"s", "h", "i", "p", "p", "i", "n", "g">>,
         <<"c", "o", "u", "r", "i", "e", "r">>,
         <<"p", "a", "c", "k", "a", "g", "i", "n", "g">>,
         <<"h", "o", "m", "e", " ", "d", "e", "l", "i", "v", "e", "r", "y">>,
         <<"o", "n", "l", "i", "n", "e", " ", "o", "r", "d", "e", "r">>,
         <<"s", "w", "i", "g", "g", "y">>,
         <<"z", "o", "m", "a", "t", "o">>,
         <<"u", "b", "e", "r", " ", "e", "a", "t", "s">> >>,
    directions |->
      << <<"d", "i", "r", "e", "c", "t", "i", "o", "n">>,
         <<"m", "a", "p">>,
         <<"l", "o", "c", "a", "t", "i", "o", "n">>,
         <<"p", "a", "r", "k", "i", "n", "g">>,
         <<"m", "e", "t", "r", "o">>,
         <<"b", "u", "s">>,
         <<"t", "r", "a", "n", "s", "p", "o", "r", "t">>,
         <<"l", "a", "n", "d", "m", "a", "r", "k">>,
         <<"r", "o", "u", "t", "e">>,
         <<"d", "i", "s", "t", "a", "n", "c", "e">>,
         <<"a", "c", "c", "e", "s", "s", "i", "b", "i", "l", "i", "t", "y">>,
         <<"w", "h", "e", "e", "l", "c", "h", "a", "i", "r">>,
         <<"e", "l", "e", "v", "a", "t", "o", "r">> >>,
    policies |->
      << <<"p", "o", "l", "i", "c", "y">>,
         <<"t", "e", "r", "m", "s">>,
         <<"c", "o", "n", "d", "i", "t", "i", "o", "n">>,
         <<"r", "u", "l", "e">>,
         <<"r", "e", "g", "u", "l", "a", "t", "i", "o", "n">>,
         <<"g", "u", "i", "d", "e", "l", "i", "n", "e">>,
         <<"c", "a", "n", "c", "e", "l", "l", "a", "t", "i", "o", "n">>,
         <<"r", "e", "f", "u", "n", "d">>,
         <<"p", "r", "i", "v", "a", "c", "y">>,
         <<"t", "e", "r", "m", "s", " ", "o", "f", " ", "s", "e", "r", "v", "i", "c", "e">>,
         <<"d", "i", "s", "c", "l", "a", "i", "m", "e", "r">> >>,
    events |->
      << <<"e", "v", "e", "n", "t">>,
         <<"c", "a", "t", "e", "r", "i", "n", "g">>,
         <<"p", "a", "r", "t", "y">>,
         <<"c", "e", "l", "e", "b", "r", "a", "t", "i", "o", "n">>,
         <<"w", "e", "d", "d", "i", "n", "g">>,
         <<"c", "o", "r", "p", "o", "r", "a", "t", "e">>,
         <<"m", "e", "e", "t", "i", "n", "g">>,
         <<"c", "o", "n", "f", "e", "r", "e", "n", "c", "e">>,
         <<"b", "i", "r", "t", "h", "d", "a", "y">>,
         <<"a", "n", "n", "i", "v", "e", "r", "s", "a", "r", "y">>,
         <<"p", "r", "i", "v", "a", "t", "e", " ", "d", "i", "n", "i", "n", "g">>,
         <<"b", "a", "n", "q", "u", "e", "t">> >>,
    amenities |->
      << <<"a", "m", "e", "n", "i", "t", "y">>,
         <<"f", "a", "c", "i", "l", "i", "t", "y">>,
         <<"w", "i", "f", "i">>,
         <<"p", "a", "r", "k", "i", "n", "g">>,
         <<"w", "a", "s", "h", "r", "o", "o", "m">>,
         <<"r", "e", "s", "t", "r", "o", "o", "m">>,
         <<"a", "i", "r", " ", "c", "o", "n", "d", "i", "t", "i", "o", "n", "i", "n", "g">>,
         <<"s", "e", "a", "t", "i", "n", "g">>,
         <<"c", "o", "m", "f", "o", "r", "t">>,
         <<"c", "o", "n", "v", "e", "n", "i", "e", "n", "c", "e">>,
         <<"i", "n", "f", "r", "a", "s", "t", "r", "u", "c", "t", "u", "r", "e">> >>,
    technology |->
      << <<"a", "p", "p">>,
         <<"w", "e", "b", "s", "i", "t", "e">>,
         <<"o", "n", "l", "i", "n", "e">>,
         <<"d", "i", "g", "i", "t", "a", "l">>,
         <<"s", "o", "f", "t", "w", "a", "r", "e">>,
         <<"p", "l", "a", "t", "f", "o", "r", "m">>,
         <<"l", "o", "g", "i", "n">>,
         <<"a", "c", "c", "o", "u", "n", "t">>,
         <<"p", "a", "s", "s", "w", "o", "r", "d">>,
         <<"r", "e", "g", "i", "s", "t", "r", "a", "t", "i", "o", "n">>,
         <<"d", "o", "w", "n", "l", "o", "a", "d">>,
         <<"m", "o", "b", "i", "l", "e", " ", "a", "p", "p">> >>,
    support |->
      << <<"s", "u", "p", "p", "o", "r", "t">>,
         <<"h", "e", "l", "p">>,
         <<"a", "s", "s", "i", "s", "t", "a", "n", "c", "e">>,
         <<"c", "u", "s", "t", "o", "m", "e", "r", " ", "s", "e", "r", "v", "i", "c", "e">>,
         <<"h", "e", "l", "p", "l", "i", "n", "e">>,
         <<"c", "o", "m", "p", "l", "a", "i", "n", "t">>,
         <<"f", "e", "e", "d", "b", "a", "c", "k">>,
         <<"q", "u", "e", "r", "y">>,
         <<"q", "u", "e", "s", "t", "i", "o", "n">>,
         <<"i", "s", "s", "u", "e">>,
         <<"p", "r", "o", "b", "l", "e", "m">>,
         <<"s", "o", "l", "u", "t", "i", "o", "n">> >>,
    offers |->
      << <<"o", "f", "f", "e", "r">>,
         <<"d", "e", "a", "l">>,
         <<"p", "r", "o", "m", "o", "t", "i", "o", "n">>,
         <<"d", "i", "s", "c", "o", "u", "n", "t">>,
         <<"c", "o", "u", "p", "o", "n">>,
         <<"l", "o", "y", "a", "l", "t", "y">>,
         <<"r", "e", "w", "a", "r", "d">>,
         <<"p", "o", "i", "n", "t", "s">>,
         <<"c", "a", "s", "h", "b", "a", "c", "k">>,
         <<"s", "p", "e", "c", "i", "a", "l">>,
         <<"c", "o", "m", "b", "o">>,
         <<"p", "a", "c", "k", "a", "g", "e">> >>,
    dietary |->
      << <<"d", "i", "e", "t", "a", "r", "y">>,
         <<"a", "l", "l", "e", "r", "g", "e", "n">>,
         <<"v", "e", "g", "a", "n">>,
         <<"v", "e", "g", "e", "t", "a", "r", "i", "a", "n">>,
         <<"g", "l", "u", "t", "e", "n">>,
         <<"d", "a", "i", "r", "y">>,
         <<"n", "u", "t">>,
         <<"s", "u", "g", "a", "r">>,
         <<"o", "r", "g", "a", "n", "i", "c">>,
         <<"h", "e", "a", "l", "t", "h", "y">>,
         <<"n", "u", "t", "r", "i", "t", "i", "o", "n">>,
         <<"c", "a", "l", "o", "r", "i", "e">>,
         <<"i", "n", "g", "r", "e", "d", "i", "e", "n", "t">> >>,
    faq |->
      << <<"f", "a", "q">>,
         <<"f", "r", "e", "q", "u", "e", "n", "t", "l", "y", " ", "a", "s", "k", "e", "d">>,
         <<"q", "u", "e", "s", "t", "i", "o", "n">>,
         <<"a", "n", "s", "w", "e", "r">>,
         <<"c", "o", "m", "m", "o", "n">>,
         <<"q", "u", "e", "r", "y">>,
         <<"d", "o", "u", "b", "t">>,
         <<"c", "l", "a", "r", "i", "f", "i", "c", "a", "t", "i", "o", "n">> >>,
    social |->
      << <<"s", "o", "c", "i", "a", "l">>,
         <<"i", "n", "s", "t", "a", "g", "r", "a", "m">>,
         <<"f", "a", "c", "e", "b", "o", "o", "k">>,
         <<"t", "w", "i", "t", "t", "e", "r">>,
         <<"y", "o", "u", "t", "u", "b", "e">>,
         <<"l", "i", "n", "k", "e", "d", "i", "n">>,
         <<"f", "o", "l", "l", "o", "w">>,
         <<"s", "h", "a", "r", "e">>,
         <<"c", "o", "m", "m", "u", "n", "i", "t", "y">>,
         <<"r", "e", "v", "i", "e", "w">>,
         <<"r", "a", "t", "i", "n", "g">> >> ]

\* ten times config.weight of the categories (file-processor.mjs 218-240):
\* the scores are kept in tenths
CategoryWeight ==
  [ hours |-> 15,
    contact |-> 12,
    menu |-> 10,
    reservations |-> 10,
    courses |-> 10,
    admissions |-> 10,
    faculty |-> 10,
    services |-> 10,
    doctors |-> 10,
    pricing |-> 8,
    delivery |-> 10,
    directions |-> 10,
    policies |-> 10,
    events |-> 10,
    amenities |-> 10,
    technology |-> 10,
    support |-> 10,
    offers |-> 10,
    dietary |-> 10,
    faq |-> 10,
    social |-> 10 ]

\* countKeyword(hay, needle) from index pos on (file-processor.mjs 209-216):
\* the occurrences counted do not overlap
RECURSIVE CountKeywordFrom(_, _, _)
CountKeywordFrom(hay, needle, pos) ==
  Bind(IndexOf(hay, needle, pos),
       LAMBDA at : IF at = -1 THEN 0
                   ELSE 1 + CountKeywordFrom(hay, needle, at + Len(needle)))

\* (count + nameMatch) * config.weight for one keyword, in tenths
\* (file-processor.mjs 245-247)
KeywordScore(hay, name, keyword, weight) ==
  (CountKeywordFrom(hay, keyword, 0) + (IF Includes(name, keyword) THEN 1 ELSE 0))
    * weight

\* score after the keywords from place k on (file-processor.mjs 243-248)
RECURSIVE ScoreFrom(_, _, _, _, _)
ScoreFrom(hay, name, kws, weight, k) ==
  IF k > Len(kws) THEN 0
  ELSE KeywordScore(hay, name, kws[k], weight)
         + ScoreFrom(hay, name, kws, weight, k + 1)

\* scores after the forEach (file-processor.mjs 242-250)
KeywordScores(hay, name) ==
  [c \in DOMAIN CategoryKeywords |->
     ScoreFrom(hay, name, CategoryKeywords[c], CategoryWeight[c], 1)]

\* the currency bonus, in tenths (file-processor.mjs 252-254)
PricingBonus(hay) ==
  IF Includes(hay, <<"₹">>) \/ Includes(hay, <<"$">>) \/ Includes(hay, <<"€">>)
    THEN 20 ELSE 0

\* the phone and email bonuses, in tenths (file-processor.mjs 255-260)
ContactBonus(hay) ==
  (IF \/ Includes(hay, <<"+", "9", "1">>) \/ Includes(hay, <<"+", "1">>)
      \/ Includes(hay, <<"p", "h", "o", "n", "e", ":">>) \/ Includes(hay, <<"t", "e", "l", ":">>)
     THEN 30 ELSE 0)
  + (IF /\ Includes(hay, <<"@">>)
        /\ \/ Includes(hay, <<".", "c", "o", "m">>) \/ Includes(hay, <<".", "i", "n">>)
           \/ Includes(hay, <<".", "o", "r", "g">>)
       THEN 20 ELSE 0)

\* scores after the bonuses (file-processor.mjs 252-260)
WithBonuses(sc, hay) ==
  [sc EXCEPT !.pricing = @ + PricingBonus(hay),
             !.contact = @ + ContactBonus(hay)]

\* Math.max(...Object.values(scores)) (file-processor.mjs 262)
MaxScore(sc) == SetMax({sc[c] : c \in DOMAIN sc})

\* the last category of the order whose score is the maximum
LastBest(sc) ==
  CategoryOrder[SetMax({i \in DOMAIN CategoryOrder :
                          sc[CategoryOrder[i]] = MaxScore(sc)})]

\* Object.entries(scores).find(([, score]) => score === maxScore)[0]
\* (file-processor.mjs 265): the entries are in the order of the categories
FirstBest(sc) ==
  CategoryOrder[SetMin({i \in DOMAIN CategoryOrder :
                          sc[CategoryOrder[i]] = MaxScore(sc)})]

\* the value returned (file-processor.mjs 262-267)
Categorized(sc) == IF MaxScore(sc) = 0 THEN "general" ELSE FirstBest(sc)

\* content, name and the keyword scores (file-processor.mjs 206-250)
CategorizeScore ==
  /\ apc = "call"
  /\ catScores' =
       Bind(ToLower(catText),
            LAMBDA hay : Bind(ToLower(catName),
                              LAMBDA name : KeywordScores(hay, name)))
  /\ apc' = "scored"
  /\ UNCHANGED <<catText, catName, category, notCategorize>>

\* the three bonuses (file-processor.mjs 252-260)
CategorizeBonus ==
  /\ apc = "scored"
  /\ catScores' = Bind(ToLower(catText), LAMBDA hay : WithBonuses(catScores, hay))
  /\ apc' = "bonus"
  /\ UNCHANGED <<catText, catName, category, notCategorize>>

\* 'general' or the best category (file-processor.mjs 262-267)
CategorizePick ==
  /\ apc = "bonus"
  /\ category' = Categorized(catScores)
  /\ apc' = "done"
  /\ UNCHANGED <<catText, catName, catScores, notCategorize>>

\* the pieces the categorized texts are made of: keywords of several
\* categories and weights, a currency sign, a phone prefix, an email
\* address, a word that is no keyword
CategoryPieces ==
  { <<"M", "e", "n", "u">>, <<"t", "a", "b", "l", "e">>, <<"p", "r", "i", "c", "e">>, <<"h", "o", "u", "r", "s">>, <<"p", "h", "o", "n", "e">>, <<"$">>, <<"â", "", "¹", "5">>, <<"+", "9", "1">>, <<"a", "@", "b", ".", "c", "o", "m">>, <<"x", "y", "z">> }

CategoryTexts ==
  {Join(ps, <<" ">>) : ps \in UNION {[1..n -> CategoryPieces] : n \in 0..MaxCatPieces}}

\* the file names
FileNames == { <<>>, <<"m", "e", "n", "u", ".", "t", "x", "t">>, <<"x", ".", "c", "s", "v">> }

\* the scores before they are computed
NoScores == [c \in DOMAIN CategoryKeywords |-> 0]

InitCategorize ==
  /\ catText \in CategoryTexts
  /\ catName \in FileNames
  /\ catScores = NoScores
  /\ category = ""
  /\ apc = "call"

NextCategorize ==
  \/ CategorizeScore
  \/ CategorizeBonus
  \/ CategorizePick

\* ------------------------------- server.mjs: the business-creation routes
\* the requests in progress
Requesters == 1..MaxRequests

\* POST /admin/business/create-and-upload (server.mjs 1127) and the legacy
\* POST /admin/business/create (1321)
Routes == {"create-and-upload", "create"}

\* the slug of a request; "" is a request without one
Slugs == {"", "s1", "s2"}

\* the rows of the businesses table with the slug
BySlug(rows, slug) == {b \in rows : b.slug = slug}

\* a request on its way: the route, the slug of businessData, the local
\* existing, the status answered and the position in the handler
NewRequest(route, slug) ==
  [route |-> route, slug |-> slug, existing |-> FALSE, status |-> 0,
   pc |-> "start"]

\* if (!businessData.slug || !businessData.name) return 400
\* (server.mjs 1162-1165, 1324-1326)
CreateInvalid(r) ==
  /\ requests[r].pc = "start"
  /\ requests[r].slug = ""
  /\ requests' = [requests EXCEPT ![r].status = 400, ![r].pc = "done"]
  /\ UNCHANGED <<dbModule, businessRows, notCreate>>

\* const existing = await getBusinessBySlug(businessData.slug)
\* (server.mjs 1167, 1327; chat.js 256-272, 866-868)
CreateLookup(r) ==
  /\ requests[r].pc = "start"
  /\ requests[r].slug # ""
  /\ requests' =
       [requests EXCEPT
          ![r].existing = BySlug(businessRows, requests[r].slug) # {},
          ![r].pc = "looked"]
  /\ UNCHANGED <<dbModule, businessRows, notCreate>>

\* if (existing) return 409 (server.mjs 1168-1170, 1328-1330)
CreateConflict(r) ==
  /\ requests[r].pc = "looked"
  /\ requests[r].existing
  /\ requests' = [requests EXCEPT ![r].status = 409, ![r].pc = "done"]
  /\ UNCHANGED <<dbModule, businessRows, notCreate>>

\* whether the table takes a new row with the slug: the PutCommand of the
\* DynamoDB module has no condition and the key of the table is the id, a
\* fresh uuid (chat.js 210-254); the SQLite table has slug TEXT UNIQUE
\* (chat.js 703)
Accepts(db, rows, slug) == db = "dynamodb" \/ BySlug(rows, slug) = {}

\* const result = await createBusiness(businessData) (server.mjs 1173, 1331):
\* the row is stored under a fresh id
CreateBusiness(r) ==
  /\ requests[r].pc = "looked"
  /\ ~requests[r].existing
  /\ Accepts(dbModule, businessRows, requests[r].slug)
  /\ businessRows' =
       businessRows \cup {[id |-> r, slug |-> requests[r].slug]}
  /\ requests' = [requests EXCEPT ![r].pc = "created"]
  /\ UNCHANGED <<dbModule, notCreate>>

\* createBusiness throws on the UNIQUE constraint: the catch of the handler
\* answers 500 (server.mjs 1304-1308)
CreateBusinessFails(r) ==
  /\ requests[r].pc = "looked"
  /\ ~requests[r].existing
  /\ ~Accepts(dbModule, businessRows, requests[r].slug)
  /\ requests' = [requests EXCEPT ![r].status = 500, ![r].pc = "done"]
  /\ UNCHANGED <<dbModule, businessRows, notCreate>>

\* res.json({ success: true, business, ... }) (server.mjs 1287, 1336)
CreateAnswer(r) ==
  /\ requests[r].pc = "created"
  /\ requests' = [requests EXCEPT ![r].status = 200, ![r].pc = "done"]
  /\ UNCHANGED <<dbModule, businessRows, notCreate>>

InitCreate ==
  /\ dbModule \in {"dynamodb", "sqlite"}
  /\ businessRows = {}
  /\ requests \in
       [Requesters -> {NewRequest(route, slug) :
                         route \in Routes, slug \in Slugs}]

NextCreate ==
  \E r \in Requesters :
    \/ CreateInvalid(r)
    \/ CreateLookup(r)
    \/ CreateConflict(r)
    \/ CreateBusiness(r)
    \/ CreateBusinessFails(r)
    \/ CreateAnswer(r)

\* ------------------------------------------ public/chat.js: the chat page
\* the suggestions of the welcome message (chat.js 43) and of an answer
WelcomeSuggestions == {<<"P", "r", "i", "c", "i", "n", "g">>}

AnswerSuggestions == {<<"T", "r", "y", " ", "a", "g", "a", "i", "n">>}

\* what the user types into the input
Typed == {<<>>, <<" ">>, <<"h", "i">>}

\* a sendMessage that does not look at isTyping
EmptyOnly(message, typing) == message = <<>>

\* if (!message || isTyping) return (chat.js 72)
Skips(message, typing) == message = <<>> \/ typing

\* the requests to /api/chat/message that have not completed: the fetch is
\* pending, or the body of the response is being read
InFlight == fetching + reading

\* initialize() is through (chat.js 19-44): the token is there and the
\* welcome suggestions are shown
ClientInitialized ==
  /\ token = ""
  /\ token' = "t"
  /\ shown' = shown \cup WelcomeSuggestions
  /\ UNCHANGED <<isTyping, messageInput, sendDisabled, fetching, reading,
                 sends, notClient>>

\* the user edits the input
ClientTypes ==
  /\ \E v \in Typed : messageInput' = v
  /\ messageInput' # messageInput
  /\ UNCHANGED <<isTyping, sendDisabled, token, shown, fetching, reading,
                 sends, notClient>>

\* sendMessage() up to its first await (chat.js 70-87), on the input value v:
\* it returns at once, or clears the input, sets isTyping and issues the fetch
SendMessage(v) ==
  IF Skips(Trim(v), isTyping)
    THEN /\ messageInput' = v
         /\ UNCHANGED <<isTyping, sendDisabled, fetching, sends>>
    ELSE /\ sends < MaxSends
         /\ messageInput' = <<>>
         /\ isTyping' = TRUE
         /\ sendDisabled' = TRUE
         /\ fetching' = fetching + 1
         /\ sends' = sends + 1

\* Enter in the input (chat.js 166-171), which a disabled button does not
\* prevent, or a click on the enabled button (165)
ClientSends ==
  /\ SendMessage(messageInput)
  /\ UNCHANGED <<token, shown, reading, notClient>>

\* a click on a suggestion (chat.js 145-148): messageInput.value = suggestion;
\* sendMessage()
ClientClicksSuggestion ==
  /\ \E s \in shown : SendMessage(s)
  /\ UNCHANGED <<token, shown, reading, notClient>>

\* the fetch resolves with the response: await response.json() (chat.js 89)
ClientFetchResolves ==
  /\ fetching > 0
  /\ fetching' = fetching - 1
  /\ reading' = reading + 1
  /\ UNCHANGED <<isTyping, messageInput, sendDisabled, token, shown, sends,
                 notClient>>

\* the fetch rejects: catch, finally (chat.js 102-108)
ClientFetchRejects ==
  /\ fetching > 0
  /\ fetching' = fetching - 1
  /\ isTyping' = FALSE
  /\ sendDisabled' = FALSE
  /\ UNCHANGED <<messageInput, token, shown, reading, sends, notClient>>

\* the body is read: the answer and its suggestions are shown, finally
\* (chat.js 91-97, 105-108); or reading the body throws: catch, finally
ClientAnswerRead ==
  /\ reading > 0
  /\ reading' = reading - 1
  /\ \E sug \in {{}, AnswerSuggestions} : shown' = shown \cup sug
  /\ isTyping' = FALSE
  /\ sendDisabled' = FALSE
  /\ UNCHANGED <<messageInput, token, fetching, sends, notClient>>

InitClient ==
  /\ isTyping = FALSE
  /\ messageInput = <<>>
  /\ sendDisabled = FALSE
  /\ token = ""
  /\ shown = {}
  /\ fetching = 0
  /\ reading = 0
  /\ sends = 0

NextClient ==
  \/ ClientInitialized
  \/ ClientTypes
  \/ ClientSends
  \/ ClientClicksSuggestion
  \/ ClientFetchResolves
  \/ ClientFetchRejects
  \/ ClientAnswerRead

\* ------------------------------------------------------- specifications
IdleCreate ==
  /\ dbModule = "sqlite" /\ businessRows = {} /\ requests = <<>>

IdleClient ==
  /\ isTyping = FALSE /\ messageInput = <<>> /\ sendDisabled = FALSE
  /\ token = "" /\ shown = {} /\ fetching = 0 /\ reading = 0 /\ sends = 0

IdleChunk ==
  /\ text = <<>> /\ given = FALSE /\ maxLength = 1 /\ overlap = 0
  /\ start = 0 /\ chunks = <<>> /\ spans = <<>> /\ cpc = "idle"

IdleFile ==
  /\ content = <<>> /\ fileType = "" /\ originalName = <<>>
  /\ cleaned = <<>> /\ info = NullInfo /\ result = <<>>
  /\ carded = FALSE /\ fpc = "idle"

IdleRetrieve ==
  /\ backend = "sqlite" /\ stored = <<>> /\ businessId = "b1"
  /\ query = <<>> /\ topK = 1 /\ queryEmbedding = <<>>
  /\ fetched = [isPromise |-> FALSE, items |-> <<>>]
  /\ returned = <<>> /\ caught = "none" /\ rpc = "idle"

IdleUpload ==
  /\ files = <<>> /\ env = "ok" /\ fileIdx = 0 /\ uploadResults = <<>>
  /\ totalChunks = 0 /\ chunkCount = 0 /\ chunksInFile = 0
  /\ limitedCount = 0 /\ bi = 0 /\ failed = {} /\ tempFiles = {}
  /\ response = NoResponse /\ upc = "idle"
  /\ outcomes = <<>> /\ started = {} /\ inflight = {} /\ batchResults = {}
  /\ savedChunks = {} /\ outstanding = {}

IdleRespond ==
  /\ business = NoBusiness /\ userQuery = <<>> /\ relevantChunks = <<>>
  /\ sessionHistory = 0 /\ chatModel = "answers" /\ context = <<>>
  /\ messages = NoMessages /\ reply = <<>> /\ thrown = "none"
  /\ gpc = "idle"

IdleCategorize ==
  /\ catText = <<>> /\ catName = <<>> /\ catScores = NoScores
  /\ category = "" /\ apc = "idle"

IdleKeywords ==
  /\ kwText = <<>> /\ limit = 1 /\ kwWords = <<>> /\ kwTop = <<>>
  /\ keywords = <<>> /\ kpc = "idle"

\* FileProcessor.chunkText on every text, maxLength and overlap of the bounds
ChunkOnly ==
  /\ InitChunk /\ IdleFile /\ IdleRetrieve /\ IdleUpload /\ IdleRespond
  /\ IdleKeywords
  /\ IdleCategorize
  /\ IdleCreate
  /\ IdleClient

SpecChunk == ChunkOnly /\ [][NextChunk]_vars

NextFile ==
  \/ ProcessPdf \/ ProcessCSV \/ ProcessText \/ ProcessDocx \/ ProcessExcel
  \/ ProcessUnsupported

\* FileProcessor.processFile on every content, file type and pdf name
FileOnly ==
  /\ InitFile /\ IdleChunk /\ IdleRetrieve /\ IdleUpload /\ IdleRespond
  /\ IdleKeywords
  /\ IdleCategorize
  /\ IdleCreate
  /\ IdleClient

SpecFile == FileOnly /\ [][NextFile]_vars

\* AISystem.retrieveRelevantChunks on every chunks table, query and topK of
\* the bounds, over either database module
RetrieveOnly ==
  /\ InitRetrieve /\ IdleChunk /\ IdleFile /\ IdleUpload /\ IdleRespond
  /\ IdleKeywords
  /\ IdleCategorize
  /\ IdleCreate
  /\ IdleClient

SpecRetrieve == RetrieveOnly /\ [][NextRetrieve]_vars

\* the create-and-upload request on every list of files of the bounds
UploadOnly ==
  /\ InitUpload /\ IdleChunk /\ IdleFile /\ IdleRetrieve /\ IdleRespond
  /\ IdleKeywords
  /\ IdleCategorize
  /\ IdleCreate
  /\ IdleClient

SpecUpload == UploadOnly /\ [][NextUpload]_vars

\* AISystem.generateResponse on every business, query, chunks and chat model
\* behaviour of the bounds
RespondOnly ==
  /\ InitRespond /\ IdleChunk /\ IdleFile /\ IdleRetrieve /\ IdleUpload
  /\ IdleKeywords
  /\ IdleCategorize
  /\ IdleCreate
  /\ IdleClient

SpecRespond == RespondOnly /\ [][NextRespond]_vars

\* FileProcessor.extractKeywords on every text and limit of the bounds
KeywordsOnly ==
  /\ InitKeywords /\ IdleChunk /\ IdleFile /\ IdleRetrieve /\ IdleUpload
  /\ IdleRespond
  /\ IdleCategorize
  /\ IdleCreate
  /\ IdleClient

SpecKeywords == KeywordsOnly /\ [][NextKeywords]_vars

\* FileProcessor.categorizeContent on every text and file name of the bounds
CategorizeOnly ==
  /\ InitCategorize /\ IdleChunk /\ IdleFile /\ IdleRetrieve /\ IdleUpload
  /\ IdleRespond /\ IdleKeywords
  /\ IdleCreate
  /\ IdleClient

SpecCategorize == CategorizeOnly /\ [][NextCategorize]_vars

\* the chat page: typing, sending, clicking suggestions while answers are
\* under way
ClientOnly ==
  /\ InitClient
  /\ IdleCreate
  /\ IdleChunk
  /\ IdleFile
  /\ IdleRetrieve
  /\ IdleUpload
  /\ IdleRespond
  /\ IdleCategorize
  /\ IdleKeywords

SpecClient == ClientOnly /\ [][NextClient]_vars

\* concurrent business-creation requests on every route and slug of the
\* bounds, over either database module
CreateOnly ==
  /\ InitCreate
  /\ IdleChunk
  /\ IdleFile
  /\ IdleRetrieve
  /\ IdleUpload
  /\ IdleRespond
  /\ IdleCategorize
  /\ IdleKeywords
  /\ IdleClient

SpecCreate == CreateOnly /\ [][NextCreate]_vars

\* ------------------------------------------------------ claims: chunkText
\* position p of the text is inside the window of some iteration
InWindow(p) == \E i \in DOMAIN spans : spans[i].from <= p /\ p < spans[i].to

\* position p of the text is inside the chunk some iteration pushed
InChunk(p) == \E i \in DOMAIN spans : spans[i].cfrom <= p /\ p < spans[i].cto

\* C2: in every iteration of the loop of chunkText the next window start is
\* strictly greater than the current start, whatever the break-point search
\* returned, so start grows until it reaches the end of the text.
C2_NextStartAdvances ==
  /\ \A i \in DOMAIN spans : spans[i].next > spans[i].from
  /\ cpc = "loop" => start >= Len(spans)

\* C2 witness: an iteration in which end - overlap fell at or before start, so
\* only the clamp to start + 1 made the window advance
C2_Witness ==
  \E i \in DOMAIN spans :
    /\ spans[i].to - overlap <= spans[i].from
    /\ spans[i].next = spans[i].from + 1

\* C3 (as claimed): for |text| > maxLength every character position of the
\* text is included in at least one returned chunk.
C3_EveryPositionInAChunk ==
  (cpc = "done" /\ given /\ Len(text) > maxLength)
    => \A p \in 0..(Len(text) - 1) : InChunk(p)

\* C3 (amended): for |text| > maxLength every character position is inside at
\* least one window chunkText slices, and every position that holds a
\* non-white-space character is included in at least one returned chunk.
C3_EveryPositionInAWindow ==
  (cpc = "done" /\ given /\ Len(text) > maxLength)
    => \A p \in 0..(Len(text) - 1) :
         /\ InWindow(p)
         /\ ~IsWs(text[p + 1]) => InChunk(p)

\* C3 witness: a finished run over a long text with a positive overlap in
\* which a white-space position was trimmed out of every chunk
C3_Witness ==
  /\ cpc = "done" /\ given /\ Len(text) > maxLength /\ overlap > 0
  /\ Len(chunks) >= 2
  /\ \E p \in 0..(Len(text) - 1) : ~InChunk(p)

\* C4: chunkText returns the empty sequence for empty or missing text, and
\* exactly [text], unmodified, whenever 0 < |text| <= maxLength.
C4_EarlyReturn ==
  cpc = "done" =>
    /\ (~given \/ Len(text) = 0) => chunks = <<>>
    /\ (given /\ 0 < Len(text) /\ Len(text) <= maxLength) => chunks = <<text>>

\* C4 witness: a text that fits and has white space at its edge was returned
C4_Witness ==
  /\ cpc = "done" /\ given
  /\ 0 < Len(text) /\ Len(text) <= maxLength
  /\ IsWs(text[1])
  /\ chunks = <<text>>

\* ------------------------------------------------ claims on processFile
\* processFile returned through cleanText and appendContactCard
Returned == fpc = "done" /\ carded

\* the white-space separated words of s
Words(s) ==
  {Slice(s, i, SkipNonWs(s, i)) :
     i \in {j \in 0..(Len(s) - 1) : ~IsWs(s[j + 1]) /\ (j = 0 \/ IsWs(s[j]))}}

\* the one-line fields of the contact info
LineFields(ci) ==
  {ci.phones[k] : k \in DOMAIN ci.phones}
    \cup {ci.whatsapp, ci.email, ci.address, ci.website}

\* C5 as stated: when extractContactInfo finds a field, the text that
\* appendContactCard returns holds exactly one CONTACT_CARD block, the block is
\* at the very start, and every one-line field is free of line breaks, also
\* when the input already begins with a card.
C5_ExactlyOneCardAtTop ==
  (Returned /\ ~info.isNull) =>
     /\ OccursAt(result, CardBegin, 0)
     /\ CountOccurrences(result, CardBegin) = 1
     /\ CountOccurrences(result, CardEnd) = 1
     /\ \A f \in LineFields(info) : ~Includes(f, <<"\n">>)

\* the case of C5: a text that begins with a card went through
\* appendContactCard, which found a field in it
C5_Witness ==
  /\ Returned
  /\ ~info.isNull
  /\ OccursAt(cleaned, CardBegin, 0)
  /\ OccursAt(result, CardBegin, 0)

\* the words that make a text contact-like for extractContactInfo: its email,
\* address and website labels and its hours headers
ContactWords ==
  { <<"e", "m", "a", "i", "l">>, <<"a", "d", "d", "r", "e", "s", "s">>, <<"w", "e", "b", "s", "i", "t", "e">>, <<"h", "o", "u", "r", "s">>, <<"t", "i", "m", "i", "n", "g", "s">> }

\* s holds no contact-like field: no word of a label or of an hours header,
\* and too few digits for any phone
NoContactLikeField(s) ==
  Bind(ToLower(s),
       LAMBDA low : /\ CountChars(s, IsDigit) < 10
                    /\ \A w \in ContactWords : ~Includes(low, w))

\* C6: for a text with no contact-like field extractContactInfo returns null,
\* and with a null info appendContactCard returns its input unchanged.
C6_NoFieldNoCard ==
  Returned =>
     /\ NoContactLikeField(cleaned) => info.isNull
     /\ info.isNull => result = cleaned

\* the case of C6: a text with digits (a price) but no contact field came
\* back unchanged
C6_Witness ==
  /\ Returned
  /\ NoContactLikeField(cleaned)
  /\ CountChars(cleaned, IsDigit) > 0
  /\ info.isNull
  /\ result = cleaned

\* the labelled phone of the example, inside a CONTACT section, and its
\* normalized form
LabelledPhoneSection == 
  <<"C", "O", "N", "T", "A", "C", "T", "\n", "P", "h", "o", "n", "e", ":",
    " ", "+", "9", "1", "-", "9", "8", "7", "6", "5", "-", "4", "3", "2",
    "1", "0">>

NormalizedPhone == 
  <<"+", "9", "1", "9", "8", "7", "6", "5", "4", "3", "2", "1", "0">>

\* digits only, with an optional leading plus
IsNormalizedPhone(p) ==
  \A i \in 1..Len(p) : IsDigit(p[i]) \/ (i = 1 /\ p[i] = "+")

\* C7 as stated: every entry of the phones list is in normalized form, and
\* "Phone: +91-98765-43210" inside a CONTACT section gives "+919876543210".
C7_PhonesNormalized ==
  (Returned /\ ~info.isNull) =>
     /\ \A k \in DOMAIN info.phones : IsNormalizedPhone(info.phones[k])
     /\ Includes(cleaned, LabelledPhoneSection) =>
          \E k \in DOMAIN info.phones : info.phones[k] = NormalizedPhone

\* the case of C7: the labelled phone of a CONTACT section was extracted
C7_Witness ==
  /\ Returned
  /\ OccursAt(cleaned, LabelledPhoneSection, 0)
  /\ Len(info.phones) = 1

\* the years and the price that the file contents hold
ShortNumbers == { <<"2", "0", "1", "9">>, <<"2", "0", "2", "0">>, <<"1", "5", "0", "0">> }

\* p is nothing but years and prices
MadeOfShortNumbers(p) == Words(p) \subseteq ShortNumbers

\* C8 as stated: every phone returned has at least 10 digits after
\* normalization and is a single number, never a sequence of prices or years.
C8_PhonesAreSingleLongNumbers ==
  (Returned /\ ~info.isNull) =>
     \A k \in DOMAIN info.phones :
        /\ CountChars(normalizePhone(info.phones[k]), IsDigit) >= 10
        /\ ~MadeOfShortNumbers(info.phones[k])

\* the case of C8: a text of years and prices went through the phone search
C8_Witness ==
  /\ Returned
  /\ MadeOfShortNumbers(cleaned)
  /\ CountChars(cleaned, IsDigit) >= 10

\* C9 as stated: for every supported extension, content and original name the
\* string processFile returns has no "\r", no tab and no three consecutive
\* line breaks.
C9_OutputNormalized ==
  fpc = "done" =>
     /\ ~Includes(result, <<"\r">>)
     /\ ~Includes(result, <<"\t">>)
     /\ ~Includes(result, <<"\n", "\n", "\n">>)

\* the case of C9: a pdf whose original name holds a tab was processed
C9_Witness ==
  /\ fpc = "done"
  /\ fileType = "pdf"
  /\ Includes(originalName, <<"\t">>)

\* ------------------------------------- claims on retrieveRelevantChunks
\* the chunks of the queried business, as the database holds them
BusinessChunks == ChunksOf(stored, businessId)

\* the highest contact score among the chunks of the queried business
BestContactScore ==
  Bind(BusinessChunks,
       LAMBDA items : Bind({contactChunkScore(items[k].content) : k \in DOMAIN items},
                           LAMBDA scores : IF scores = {} THEN 0 ELSE SetMax(scores)))

\* the chunks of the queried business with the highest contact score, when
\* that score is positive
BestContacts ==
  Bind(BusinessChunks,
       LAMBDA items : {items[k] : k \in {j \in DOMAIN items :
                         /\ contactChunkScore(items[j].content) > 0
                         /\ contactChunkScore(items[j].content) = BestContactScore}})

\* ch is not among the first topK chunks by cosine similarity
OutsideTopK(ch) ==
  Bind(BusinessChunks,
       LAMBDA items : \E k \in DOMAIN items :
                        /\ items[k].id = ch.id
                        /\ Rank(items, k,
                                LAMBDA c : calculateCosineSimilarity(queryEmbedding,
                                                                     c.embedding)) > topK)

\* the query was embedded, it is contact-like, and a best-scoring contact
\* chunk of the business ranks outside the top K
ContactCase ==
  /\ queryEmbedding # <<>>
  /\ isContactLike(query)
  /\ \E ch \in BestContacts : OutsideTopK(ch)

\* C1 as stated: for a contact-like query for a business that has a chunk with
\* a positive contact score outside the top K by cosine similarity, the list
\* retrieveRelevantChunks returns contains the best-scoring contact chunk.
C1_ContactChunkRetrieved ==
  (rpc = "done" /\ ContactCase) =>
     \E ch \in BestContacts : \E i \in DOMAIN returned : returned[i] = ch.id

\* the case of C1: retrieval finished for a contact-like query whose contact
\* card ranks outside the top K, the chunks coming from DynamoDB
C1_Witness ==
  /\ rpc = "done"
  /\ backend = "dynamodb"
  /\ ContactCase
  /\ caught = "TypeError"

\* the cosine similarity of the chunk of the queried business with id i to
\* the query
SimilarityOf(i) ==
  Bind(BusinessChunks,
       LAMBDA items :
         calculateCosineSimilarity(
           queryEmbedding,
           items[CHOOSE k \in DOMAIN items : items[k].id = i].embedding))

\* the override fired: the last chunk returned is a best contact chunk that
\* is not among the first topK by cosine similarity
OverrideFired ==
  /\ rpc = "done"
  /\ caught = "none"
  /\ returned # <<>>
  /\ ContactCase
  /\ \E ch \in BestContacts :
       ch.id = returned[Len(returned)] /\ OutsideTopK(ch)

\* C19: retrieveRelevantChunks never returns more than topK chunks, and the
\* contact override changes the K-th slot only: when it fires, the first
\* topK - 1 chunks returned are the topK - 1 chunks of the business with the
\* highest cosine similarity, in descending order.
C19_OverrideKeepsFirstSlots ==
  /\ Len(returned) <= topK
  /\ OverrideFired =>
       /\ Len(returned) = topK
       /\ \A i \in 1..(topK - 1) :
            /\ \E k \in DOMAIN BusinessChunks :
                 BusinessChunks[k].id = returned[i]
            /\ \A j \in 1..(i - 1) :
                 /\ returned[j] # returned[i]
                 /\ SimilarityOf(returned[j]) >= SimilarityOf(returned[i])
            /\ \A k \in DOMAIN BusinessChunks :
                 (\A j \in 1..(topK - 1) : returned[j] # BusinessChunks[k].id)
                   => SimilarityOf(BusinessChunks[k].id)
                        <= SimilarityOf(returned[i])

\* the case of C19: the override fired with topK of 2 or more, so there are
\* slots before the K-th
C19_Witness ==
  /\ OverrideFired
  /\ topK >= 2

\* ---------------------------------------- claims on create-and-upload
\* the extension of the file is none that processFile knows
Unrecognized(name) == ExtName(name) \notin SupportedTypes

\* the files of the request whose processing fails: by their extension, or
\* because their try block threw
FailingFiles ==
  {k \in DOMAIN files : Unrecognized(files[k])} \cup failed

\* C10 as stated: when the processing of a file of a valid request fails, for
\* an unrecognized extension or an extraction error, the request answers with
\* success and one result entry per uploaded file, the failing file has status
\* 'error' and every other file was processed.
C10_FailedFileDoesNotAbort ==
  (upc = "done" /\ env = "ok" /\ FailingFiles # {}) =>
     /\ response.success
     /\ Len(response.results) = Len(files)
     /\ \A k \in DOMAIN response.results :
          response.results[k].status =
            IF k \in FailingFiles THEN "error" ELSE "success"

\* the case of C10: a valid request with a file of an unrecognized extension
\* next to another file was answered
C10_Witness ==
  /\ upc = "done"
  /\ env = "ok"
  /\ Len(files) = 2
  /\ Unrecognized(files[1])
  /\ FilterExt(files[1]) \notin allowedTypes
  /\ ~Unrecognized(files[2])

\* ------------------------------------------------ claims: the batch loop
\* the batch loop of the file being processed is through
LoopThrough == upc = "batch" /\ bi >= limitedCount

\* the chunks of the file being processed whose embedding and save go well
OkChunks == {j \in DOMAIN outcomes : outcomes[j] = "ok"}

\* the place in uploadResults of the file whose success entry was pushed last,
\* while the batch variables still tell of that file; 0 if there is none
LastDone ==
  IF /\ upc \in {"files", "done"}
     /\ fileIdx - 1 \in DOMAIN uploadResults
     /\ fileIdx - 1 \notin failed
  THEN fileIdx - 1 ELSE 0

\* C11: a failure of the embedding call of one chunk (error or timeout) gives
\* a failed result for that chunk only: every chunk of the file up to the cap
\* is still attempted, every chunk that did not fail is saved and counted, and
\* the file is reported with status 'success'.
C11_ChunkFailureIsolated ==
  /\ \A r \in batchResults : r.success = (r.chunkIndex \in OkChunks)
  /\ LoopThrough =>
       /\ started = 0..(limitedCount - 1)
       /\ savedChunks = OkChunks
       /\ chunkCount = Cardinality(OkChunks)
  /\ LastDone # 0 =>
       /\ uploadResults[LastDone].status = "success"
       /\ uploadResults[LastDone].chunks = Cardinality(OkChunks)
       /\ uploadResults[LastDone].processedChunks = Cardinality(started)

\* the case of C11: the embedding calls of a chunk of the first batch and of
\* a chunk of the second batch timed out in a file that reached the cap, and
\* the success entry of the file counts every other chunk
C11_Witness ==
  /\ LastDone # 0
  /\ limitedCount = MAX_CHUNKS
  /\ outcomes[1] = "timeout"
  /\ outcomes[BATCH_SIZE] = "timeout"
  /\ uploadResults[LastDone].chunks = MAX_CHUNKS - 2

\* the batch chunk j belongs to
BatchNo(j) == j \div BATCH_SIZE

\* C12: within one file the batches are strictly sequential: the embedding
\* calls are made in chunk order, and while a chunk has not settled (saved,
\* failed or timed out) no chunk of a later batch has had its call made.
C12_BatchesSequential ==
  /\ started = 0..(Cardinality(started) - 1)
  /\ \A k \in inflight : \A j \in started : BatchNo(j) <= BatchNo(k)

\* the case of C12: the second batch is running after a chunk of the first
\* batch timed out
C12_Witness ==
  /\ upc = "await"
  /\ bi = BATCH_SIZE
  /\ inflight # {}
  /\ 1 \in DOMAIN outcomes
  /\ outcomes[1] = "timeout"

\* C13 as stated: at most BATCH_SIZE embedding calls of the request are
\* outstanding at the provider at any moment, also after calls have exceeded
\* the 15 s timeout.
C13_AtMostBatchSizeOutstanding == Cardinality(outstanding) <= BATCH_SIZE

\* C14: at most MAX_CHUNKS chunks of a file are embedded and saved, the first
\* MAX_CHUNKS that chunkText produced; a chunk beyond the cap reaches neither
\* the provider nor the store.
C14_ChunkCapRespected ==
  /\ started \subseteq 0..(MAX_CHUNKS - 1)
  /\ savedChunks \subseteq started
  /\ \A c \in outstanding : c.chunk < MAX_CHUNKS
  /\ LoopThrough => started = 0..(Min(chunksInFile, MAX_CHUNKS) - 1)

\* the case of C14: a file of more than MAX_CHUNKS chunks is through, and
\* MAX_CHUNKS of its chunks are stored
C14_Witness ==
  /\ LoopThrough
  /\ chunksInFile > MAX_CHUNKS
  /\ Cardinality(savedChunks) = MAX_CHUNKS

\* C15 as stated: after the ingestion of a file the chunk_index values stored
\* for its document are contiguous from 0: exactly 0..n-1 for n stored chunks,
\* whatever chunks failed or timed out.
C15_ChunkIndexContiguous ==
  LoopThrough => savedChunks = 0..(Cardinality(savedChunks) - 1)

\* C18 as stated: a failure of saveDocument or saveChunk during the ingestion
\* of a file is not absorbed as a failure of a chunk: the file is not reported
\* with status 'success'.
C18_PersistenceFailurePropagates ==
  /\ \A r \in batchResults : outcomes[r.chunkIndex] # "savefail"
  /\ LastDone # 0 => \A j \in DOMAIN outcomes : outcomes[j] # "savefail"
  /\ \A k \in DOMAIN uploadResults :
       uploadResults[k].error = "saveDocument failed" =>
         uploadResults[k].status = "error"

\* ------------------------------------------- claims: generateResponse
\* something failed while the prompt was built or the chat model was called
ResponseFailure ==
  \/ BuildError(business, relevantChunks) # "none"
  \/ chatModel \in {"APIError", "TypeError"}

\* C16: generateResponse never throws: when building the prompt or calling
\* the chat model fails, it returns the fixed apology string, and no error
\* leaves the function.
C16_NeverThrows ==
  /\ thrown = "none"
  /\ gpc = "done" =>
       /\ reply # <<>>
       /\ ResponseFailure => reply = TechnicalDifficulties
       /\ chatModel \in {"noChoice", "noContent"} /\ ~ResponseFailure =>
            reply = TroubleGenerating

\* the case of C16: the prompt was built and the call of the chat model
\* rejected
C16_Witness ==
  /\ gpc = "done"
  /\ messages # NoMessages
  /\ chatModel = "APIError"
  /\ reply = TechnicalDifficulties

\* the system prompt was built for a call without retrieved chunks
BuiltWithoutChunks == messages # NoMessages /\ relevantChunks = <<>>

\* C17 as stated: when generateResponse is called with no retrieved chunks,
\* for a contact-like query or any other, the system prompt has no CONTEXT
\* block and is the base prompt only.
C17_NoChunksNoContextBlock ==
  BuiltWithoutChunks =>
     /\ ~Includes(messages.system, ContextHeading)
     /\ messages.system = basePrompt(business)

\* C17 amended: when generateResponse is called with no retrieved chunks, for
\* a query that is not contact-like the system prompt has no CONTEXT block and
\* is the base prompt only; for a contact-like query it is the base prompt
\* followed by a CONTEXT block that holds the fallback contact card of the
\* business and nothing else.
C17_NoChunksOnlyFallbackCard ==
  BuiltWithoutChunks =>
     IF isContactLike(userQuery)
       THEN messages.system =
              basePrompt(business) \o ContextHeading
                \o buildFallbackContactCard(business) \o ContextTail
       ELSE /\ ~Includes(messages.system, ContextHeading)
            /\ messages.system = basePrompt(business)

\* the case of C17: a contact-like query without retrieved chunks, for a
\* business with a phone number, and the prompt holds the fallback card
C17_Witness ==
  /\ BuiltWithoutChunks
  /\ isContactLike(userQuery)
  /\ business.phone # <<>>
  /\ Includes(messages.system, FallbackBegin)

\* ------------------------------------------- claims: extractKeywords
\* where the word w is seen first among the words kept
FirstSeen(w) == SetMin({i \in DOMAIN kwWords : kwWords[i] = w})

\* C20 as stated: extractKeywords returns at most limit tokens ordered by
\* descending frequency, and of two tokens of equal frequency the one seen
\* first in the text comes first, digit-only tokens included.
C20_TopByFrequencyThenFirstSeen ==
  kpc = "done" =>
     /\ Len(kwTop) <= limit
     /\ keywords = Join(kwTop, <<",", " ">>)
     /\ \A i \in DOMAIN kwTop : \A j \in DOMAIN kwTop :
          i < j =>
            \/ Frequency(kwWords, kwTop[i]) > Frequency(kwWords, kwTop[j])
            \/ /\ Frequency(kwWords, kwTop[i]) = Frequency(kwWords, kwTop[j])
               /\ FirstSeen(kwTop[i]) < FirstSeen(kwTop[j])

\* the case of C20: a digit-only token is returned next to another token of
\* the same frequency
C20_Witness ==
  /\ kpc = "done"
  /\ \E i \in DOMAIN kwTop : \E j \in DOMAIN kwTop :
       /\ IsArrayIndex(kwTop[i])
       /\ ~IsArrayIndex(kwTop[j])
       /\ Frequency(kwWords, kwTop[i]) = Frequency(kwWords, kwTop[j])

\* ------------------------------------------- claims: chunkText, again
\* C22 as stated: every chunk chunkText returns has at most maxLength
\* characters, wherever '.', newlines and paragraph breaks lie.
C22_ChunkWithinMaxLength ==
  \A i \in DOMAIN chunks : Len(chunks[i]) <= maxLength

\* the window of iteration i before the break-point search:
\* Math.min(start + maxLength, text.length)
RawEnd(i) == Min(spans[i].from + maxLength, Len(text))

\* index p lies in the second half of the window of iteration i
InSecondHalf(i, p) == 2 * p > 2 * spans[i].from + maxLength /\ p < RawEnd(i)

\* a paragraph break starts at index p
ParaBreakAt(p) == OccursAt(text, <<"\n", "\n">>, p)

\* a sentence terminator or a newline is at index q
SentenceOrNewlineAt(q) ==
  OccursAt(text, <<".">>, q) \/ OccursAt(text, <<"\n">>, q)

\* C23 as stated: when the window of an iteration does not reach the end of
\* the text and its second half holds a paragraph break and, after it, a
\* sentence terminator or a single newline, the chunk ends at the paragraph
\* break.
C23_ParagraphBreakPreferred ==
  \A i \in DOMAIN spans :
    \A p \in 0..Len(text) : \A q \in 0..Len(text) :
      ( /\ RawEnd(i) < Len(text)
        /\ ParaBreakAt(p)
        /\ InSecondHalf(i, p)
        /\ InSecondHalf(i, p + 1)
        /\ q > p + 1
        /\ SentenceOrNewlineAt(q)
        /\ InSecondHalf(i, q)
        /\ ~\E r \in (p + 1)..Len(text) : ParaBreakAt(r) /\ InSecondHalf(i, r) )
      => spans[i].to = p + 1

\* the iterations whose window reaches the end of the text and whose chunk
\* was pushed
TailChunks ==
  {i \in DOMAIN spans : spans[i].to = Len(text) /\ spans[i].cfrom < spans[i].cto}

\* C26 as stated: for overlap > 0 and a text longer than maxLength, exactly
\* one returned chunk is sliced from a range that ends at the end of the
\* text: no shorter suffixes of the tail follow it.
C26_OneTailChunk ==
  (cpc = "done" /\ given /\ overlap > 0 /\ Len(text) > maxLength) =>
     Cardinality(TailChunks) = 1

\* --------------------------------------- claims: categorizeContent
\* the place of category c in the order of declaration
PlaceOf(c) == CHOOSE i \in DOMAIN CategoryOrder : CategoryOrder[i] = c

\* C21: categorizeContent returns 'general' exactly when every category
\* score is zero; otherwise it returns a category with the maximum score, the
\* one declared first when several share the maximum.
C21_FirstBestCategory ==
  apc = "done" =>
     /\ category = "general" <=> \A c \in DOMAIN catScores : catScores[c] = 0
     /\ category # "general" =>
          /\ category \in DOMAIN catScores
          /\ \A c \in DOMAIN catScores :
               /\ catScores[c] <= catScores[category]
               /\ catScores[c] = catScores[category] =>
                    PlaceOf(category) <= PlaceOf(c)

\* the case of C21: two categories share a positive maximum and the one
\* declared first was returned
C21_Witness ==
  /\ apc = "done"
  /\ category # "general"
  /\ \E c \in DOMAIN catScores :
       /\ c # category
       /\ catScores[c] = catScores[category]
       /\ catScores[c] > 0

\* ------------------------------------------ claims: timeouts and counts
\* the chunks of the file being processed whose race the 15 s timer won
TimedOut == {j \in DOMAIN outcomes : outcomes[j] = "timeout"}

\* C24: a chunk whose embedding call has not completed within 15 s is counted
\* as failed and never saved: its result has success false, no chunk record
\* is written for it, also when the provider answers after the timeout, and
\* the count of the file does not include it.
C24_TimedOutChunkNeverSaved ==
  /\ savedChunks \cap TimedOut = {}
  /\ \A r \in batchResults : r.chunkIndex \in TimedOut => ~r.success
  /\ chunkCount <= Cardinality(started \ TimedOut)
  /\ LastDone # 0 =>
       uploadResults[LastDone].chunks <= Cardinality(started \ TimedOut)

\* the case of C24: the first chunk of a file timed out, the provider has
\* answered the call since, the file is reported and the chunk is not stored
C24_Witness ==
  /\ LastDone # 0
  /\ limitedCount > BATCH_SIZE
  /\ outcomes[0] = "timeout"
  /\ Call(LastDone, 0) \notin outstanding
  /\ 0 \notin savedChunks
  /\ uploadResults[LastDone].chunks = limitedCount - 1

\* C25: for every file reported with status 'success' the reported chunks is
\* the number of chunk records stored for the document of the file, and is
\* at most processedChunks = min(totalChunksInFile, MAX_CHUNKS).
C25_ReportedChunksArePersisted ==
  /\ LastDone # 0 =>
       uploadResults[LastDone].chunks = Cardinality(savedChunks)
  /\ \A k \in DOMAIN response.results :
       response.results[k].status = "success" =>
         /\ response.results[k].chunks <= response.results[k].processedChunks
         /\ response.results[k].processedChunks =
              Min(response.results[k].totalChunksInFile, MAX_CHUNKS)
  /\ \A k \in DOMAIN uploadResults :
       uploadResults[k].status = "success" =>
         /\ uploadResults[k].chunks <= uploadResults[k].processedChunks
         /\ uploadResults[k].processedChunks =
              Min(uploadResults[k].totalChunksInFile, MAX_CHUNKS)

\* the case of C25: the response is sent, its last file had more chunks than
\* the cap and saveChunk failed for one of them, so the file reports one
\* chunk less than it processed
C25_Witness ==
  /\ upc = "done"
  /\ LastDone # 0
  /\ response.results[LastDone].totalChunksInFile > MAX_CHUNKS
  /\ outcomes[0] = "savefail"
  /\ response.results[LastDone].chunks = MAX_CHUNKS - 1
  /\ Cardinality(savedChunks) = MAX_CHUNKS - 1

\* C27 as stated: when the response is sent, every temp file multer stored
\* has been removed, whatever the outcome: success, a failure of a file, 400,
\* 409 or 500.
C27_TempFilesRemoved == upc = "done" => tempFiles = {}

\* ------------------------------------------- claims: tenant isolation
\* C29: the chunks retrieved while a chat message is answered all belong to
\* the business of the session token: no chunk stored for another business is
\* among the chunks retrieveRelevantChunks returns for the prompt.
C29_RetrievedChunksOfOwnBusiness ==
  /\ \A i \in DOMAIN fetched.items :
       stored[fetched.items[i].id].business_id = businessId
  /\ \A i \in DOMAIN returned : stored[returned[i]].business_id = businessId

\* the case of C29: chunks of both businesses are stored, fewer chunks than
\* topK belong to the business of the session, and they are what is returned
C29_Witness ==
  /\ rpc = "done"
  /\ \E i \in DOMAIN stored : stored[i].business_id = businessId
  /\ \E i \in DOMAIN stored : stored[i].business_id # businessId
  /\ Len(stored) <= topK
  /\ Len(returned) > 0

\* ------------------------------------------- claims: business creation
\* C28 as stated: after any interleaving of concurrent business-creation
\* requests, create-and-upload or legacy create, at most one business record
\* exists for a slug.
C28_OneBusinessPerSlug ==
  \A a \in businessRows : \A b \in businessRows : a.slug = b.slug => a = b

\* ------------------------------------------------ claims: the chat page
\* C30: the chat page has at most one /api/chat/message request in flight: a
\* request is in flight exactly while isTyping is true, and a sendMessage
\* called while isTyping is true, from the button, the Enter key or a
\* suggestion, issues no request.
C30_OneRequestInFlight ==
  /\ InFlight <= 1
  /\ isTyping <=> InFlight = 1

\* the case of C30: a suggestion was clicked while the answer to a message
\* was under way: its text is in the input, and one request is in flight
C30_Witness ==
  /\ isTyping
  /\ messageInput \in WelcomeSuggestions \cup AnswerSuggestions
  /\ InFlight = 1
  /\ sends > 0

====
